---- MODULE Spec2Model ----
(***************************************************************************)
(* Model of the gene-distance precomputation (write path) and of the       *)
(* matrix-based proximity scorer (read path) of drug-disease-hypothesis.   *)
(*                                                                         *)
(*   scripts/precompute_gene_distance_matrix.py      write path            *)
(*   scripts/annotate_pairs_with_ppi_from_matrix.py  read path             *)
(*                                                                         *)
(* A CSV cell is a string, modelled as a tuple of character codes so that  *)
(* str.strip() and the code-point order used by sorted() are computed and  *)
(* not assumed.  The matrix file is the flat row-major array of uint16     *)
(* cells that numpy.memmap lays over it.                                   *)
(***************************************************************************)
EXTENDS Integers, Sequences, FiniteSets, TLC

VARIABLES
    ppi,            \* rows <<gene1_id, gene2_id>> of ppi.csv (raw cells)
    dt,             \* column gene_id of drug_targets.csv (raw cells)
    gd,             \* column gene_id of gene_disease.csv (raw cells)
    cutoff,         \* --cutoff: None or an integer
    pc,             \* position of precompute main()
    all_genes,      \* sorted universe (main, line 138)
    gene_to_idx,    \* gene -> index (main, line 142)
    index_file,     \* gene_index.csv: NoFile or rows <<gene_id, index>>
    G,              \* the networkx graph: [nodes, adj]
    dist,           \* the memmap array, flat row-major
    matrix_file,    \* the matrix file on disk: NoFile or flat cells
    genes_in_graph, \* BFS sources (main, line 171)
    k,              \* number of sources already processed (idx of line 180)
    drug_to_genes,    \* annotate: drug_id -> list of gene ids
    disease_to_genes, \* annotate: disease_id -> list of gene ids
    pairs_df,         \* annotate: rows <<drug_id, disease_id>> (raw cells)
    chunk_size,       \* annotate: --chunk-size
    rpc,              \* position of the read path
    r_gene_to_idx,    \* gene -> index as loaded from the index file
    r_dist,           \* the read-only memmap: [n, data]
    start,            \* rows of pairs_df already scored
    mean_distances,   \* annotate_pairs: one mean distance per scored row
    cell_reads,       \* per scored row, the cells <<i, j>> read from r_dist
    progress,         \* progress lines printed by annotate_pairs
    proximity,        \* column proximity_score
    annotated,        \* annotate_pairs: its copy of pairs_df, ids trimmed
    interactions,       \* ddh: list of GeneGeneInteraction records
    dts,                \* ddh: list of DrugTargetAssoc records
    gds,                \* ddh: list of GeneDiseaseAssoc records
    p_drug_to_genes,    \* ddh: drug_id -> set of gene ids
    p_disease_to_genes, \* ddh: disease_id -> set of gene ids
    ddh_G,              \* ddh: the weighted graph of graphs.build_ppi_graph
    overlap_df,         \* ddh: overlap table [columns, rows]
    prox_df,            \* ddh: proximity table [columns, rows]
    combined_df,        \* ddh: output of combine_overlap_and_proximity
    alpha,              \* ddh: weight of the overlap term
    beta,               \* ddh: weight of the proximity term
    ppc,                \* position of the ddh scoring pipeline
    run,                \* precompute: 1 in the first run of main(), 2 in a rerun
    first_index_file,   \* the index file the first run left
    first_matrix_file,  \* the matrix file the first run left
    pending,            \* parallel sweep: BFS sources no worker has taken yet
    work                \* parallel sweep: per worker, the source it is writing

wvars == <<ppi, dt, gd, cutoff, pc, all_genes, gene_to_idx, index_file, G,
           dist, matrix_file, genes_in_graph, k>>

rvars == <<drug_to_genes, disease_to_genes, pairs_df, chunk_size, rpc,
           r_gene_to_idx, r_dist, start, mean_distances, cell_reads, progress,
           proximity, annotated>>

svars == <<interactions, dts, gds, p_drug_to_genes, p_disease_to_genes, ddh_G,
           overlap_df, prox_df, combined_df, alpha, beta, ppc>>

tvars == <<run, first_index_file, first_matrix_file, pending, work>>

vars == <<wvars, rvars, svars, tvars>>

-----------------------------------------------------------------------------
(* Bounds of the model *)

MaxPpiRows == 3
MaxAssocRows == 1
MaxCutoff == 1
MaxGeneList == 2
MaxPairs == 2
MaxChunk == 2
MaxInteractions == 2
MaxRecords == 2
MaxLiveRows == 2
MaxSweepRows == 2
MaxWorkers == 2

-----------------------------------------------------------------------------
(* Strings *)

gA == <<65>>
gB == <<66>>
gBsp == <<66, 32>>
gC == <<67>>
gAB == <<65, 66>>
gspE == <<32, 69>>
gE == <<69>>
ga == <<97>>
gZ == <<90>>
dPsp == <<112, 32>>
dP == <<112>>
dQ == <<113>>
sX == <<120>>

\* --cutoff absent (None) or an integer
None == [given |-> FALSE, max |-> 0]
SomeCutoff(c) == [given |-> TRUE, max |-> c]

\* a file that does not exist, and a file with the given content
NoFile == [exists |-> FALSE, data |-> <<>>]
FileOf(x) == [exists |-> TRUE, data |-> x]

IsSpace(c) == c \in {9, 10, 13, 32}

RECURSIVE LStrip(_)
LStrip(s) ==
    IF s = <<>> THEN <<>>
    ELSE IF IsSpace(Head(s)) THEN LStrip(Tail(s)) ELSE s

RECURSIVE RStrip(_)
RStrip(s) ==
    IF s = <<>> THEN <<>>
    ELSE IF IsSpace(s[Len(s)]) THEN RStrip(SubSeq(s, 1, Len(s) - 1)) ELSE s

\* .astype(str).str.strip() on one cell
Strip(s) == RStrip(LStrip(s))

\* Python's str < str: code points compared left to right, a proper prefix first
RECURSIVE LexLess(_, _)
LexLess(s, t) ==
    IF s = <<>> THEN t # <<>>
    ELSE IF t = <<>> THEN FALSE
    ELSE IF Head(s) < Head(t) THEN TRUE
    ELSE IF Head(s) > Head(t) THEN FALSE
    ELSE LexLess(Tail(s), Tail(t))

Range(s) == {s[i] : i \in DOMAIN s}

\* the elements of a set in some iteration order
RECURSIVE SetToSeq(_)
SetToSeq(S) ==
    IF S = {} THEN <<>>
    ELSE LET x == CHOOSE y \in S : TRUE IN <<x>> \o SetToSeq(S \ {x})

SeqsUpTo(S, n) == UNION {[1..m -> S] : m \in 0..n}

-----------------------------------------------------------------------------
(* Gene universe and index *)

\* set(col.astype(str).str.strip())
ColSet(col) == {Strip(col[i]) : i \in DOMAIN col}

build_gene_universe(ppi_rows, dt_col, gd_col) ==
    LET genes_ppi == ColSet([i \in DOMAIN ppi_rows |-> ppi_rows[i][1]])
                     \cup ColSet([i \in DOMAIN ppi_rows |-> ppi_rows[i][2]])
        genes_dt == ColSet(dt_col)
        genes_gd == ColSet(gd_col)
    IN  genes_ppi \cup genes_dt \cup genes_gd

\* sorted(S, reverse=True)
RECURSIVE SortedDescending(_)
SortedDescending(S) ==
    IF S = {} THEN <<>>
    ELSE LET m == CHOOSE x \in S : \A y \in S : x = y \/ LexLess(y, x)
         IN  <<m>> \o SortedDescending(S \ {m})

\* sorted(S) for a set of strings
RECURSIVE Sorted(_)
Sorted(S) ==
    IF S = {} THEN <<>>
    ELSE LET m == CHOOSE x \in S : \A y \in S : x = y \/ LexLess(x, y)
         IN  <<m>> \o Sorted(S \ {m})

\* the orders in which iterating a Python set may yield its elements (they
\* vary with the hash seed): the rotations of one order and of its reverse
IterationOrders(S) ==
    LET q == SetToSeq(S)
        n == Len(q)
        rot(r) == [i \in 1..n |-> q[((i - 1 + r) % n) + 1]]
        rev(r) == [i \in 1..n |-> rot(r)[n + 1 - i]]
    IN  IF n = 0 THEN {<<>>}
        ELSE {rot(r) : r \in 0..(n - 1)} \cup {rev(r) : r \in 0..(n - 1)}

\* list(it): the elements in iteration order
list(it) == it

\* sorted(it)  (main, line 138)
sorted(it) == Sorted(Range(it))

\* {g: i for i, g in enumerate(all_genes)}
Enumerate(genes) ==
    [g \in Range(genes) |-> (CHOOSE i \in DOMAIN genes : genes[i] = g) - 1]

\* pd.DataFrame({"gene_id": all_genes, "index": list(range(N))}).to_csv(...)
IndexRows(genes) == [i \in DOMAIN genes |-> <<genes[i], i - 1>>]

-----------------------------------------------------------------------------
(* Graph *)

EmptyGraph == [nodes |-> {}, adj |-> <<>>]

\* a directed add_edge: v becomes a neighbour of u only
add_edge_directed(g, u, v) ==
    LET ns == g.nodes \cup {u, v}
        old(n) == IF n \in g.nodes THEN g.adj[n] ELSE {}
    IN  [nodes |-> ns,
         adj |-> [n \in ns |-> old(n) \cup (IF n = u THEN {v} ELSE {})]]

\* nx.Graph.add_edge(u, v)
add_edge(g, u, v) ==
    LET ns == g.nodes \cup {u, v}
        old(n) == IF n \in g.nodes THEN g.adj[n] ELSE {}
    IN  [nodes |-> ns,
         adj |-> [n \in ns |->
                    old(n) \cup (IF n = u THEN {v} ELSE {})
                           \cup (IF n = v THEN {u} ELSE {})]]

RECURSIVE add_edges_from(_, _)
add_edges_from(g, edges) ==
    IF edges = <<>> THEN g
    ELSE add_edges_from(add_edge(g, Head(edges)[1], Head(edges)[2]), Tail(edges))

build_ppi_graph(ppi_rows) ==
    add_edges_from(EmptyGraph,
        [i \in DOMAIN ppi_rows |-> <<Strip(ppi_rows[i][1]), Strip(ppi_rows[i][2])>>])

\* while nextlevel and cutoff >= level
CutoffAboveOrAt(c, level) == ~c.given \/ c.max >= level

\* while nextlevel and cutoff > level  (cutoff None is float("inf"))
CutoffAbove(c, level) == ~c.given \/ c.max > level

\* networkx _single_shortest_path_length: level-by-level BFS;
\* lengths is the dict built so far, nextlevel the last level found
RECURSIVE BfsLoop(_, _, _, _, _)
BfsLoop(g, lengths, nextlevel, level, c) ==
    IF nextlevel # {} /\ CutoffAbove(c, level)
    THEN LET found == (UNION {g.adj[v] : v \in nextlevel}) \ DOMAIN lengths
         IN  BfsLoop(g,
                     [n \in DOMAIN lengths \cup found |->
                        IF n \in DOMAIN lengths THEN lengths[n] ELSE level + 1],
                     found, level + 1, c)
    ELSE lengths

single_source_shortest_path_length(g, source, c) ==
    BfsLoop(g, [n \in {source} |-> 0], {source}, 0, c)

-----------------------------------------------------------------------------
(* Matrix *)

max_uint16 == 65535

\* flat offset of dist[i, j] in an (n, n) row-major array, 1-based
Cell(n, i, j) == i * n + j + 1

\* the inner loop of main (lines 184-189): one source's writes into dist
WriteLengths(d, n, idx, i, lengths) ==
    [c \in DOMAIN d |->
        LET hit == {h \in DOMAIN lengths :
                      /\ h \in DOMAIN idx
                      /\ Cell(n, i, idx[h]) = c
                      /\ lengths[h] <= max_uint16}
        IN  IF hit = {} THEN d[c]
            ELSE lengths[CHOOSE h \in hit : TRUE]]

\* np.memmap(..., mode="w+", shape=(n, n)): n*n zero cells
Allocated(n) == [c \in 1..(n * n) |-> 0]

\* the fill left out: the cells keep the zeros of the fresh file
FilledSentinelSkipped(d) == d

\* dist[:] = max_uint16
FilledSentinel(d) == [c \in DOMAIN d |-> max_uint16]

\* for i in range(N - 1): dist[i, i] = 0
ZeroedDiagonalShort(d, n) ==
    [c \in DOMAIN d |->
        IF \E i \in 0..(n - 2) : c = Cell(n, i, i) THEN 0 ELSE d[c]]

\* for i in range(N): dist[i, i] = 0
ZeroedDiagonal(d, n) ==
    [c \in DOMAIN d |->
        IF \E i \in 0..(n - 1) : c = Cell(n, i, i) THEN 0 ELSE d[c]]

\* [g for g in all_genes if g in G]
GenesInGraph(genes, g) == SelectSeq(genes, LAMBDA x : x \in g.nodes)

\* the source loop with the row index i left at 0
BfsFromStaleRow(d, n, idx, g, source, c) ==
    WriteLengths(d, n, idx, 0,
                 single_source_shortest_path_length(g, source, c))

\* one iteration of the source loop (lines 181-189)
BfsFrom(d, n, idx, g, source, c) ==
    WriteLengths(d, n, idx, idx[source],
                 single_source_shortest_path_length(g, source, c))

-----------------------------------------------------------------------------
(* Write path: precompute_gene_distance_matrix.main *)

N == Len(all_genes)

PpiRowPool == {<<gA, gB>>, <<gBsp, gC>>, <<ga, gC>>, <<ga, ga>>}
DtCellPool == {gAB, gspE}
GdCellPool == {gE}
Cutoffs == {None} \cup {SomeCutoff(c) : c \in 0..MaxCutoff}

\* annotate_pairs not entered: no copy of the pairs table yet
NotCopied == [made |-> FALSE, rows |-> <<>>]

\* the read path not started
ReadIdle ==
    /\ drug_to_genes = <<>>
    /\ disease_to_genes = <<>>
    /\ pairs_df = <<>>
    /\ chunk_size = 1
    /\ rpc = "idle"
    /\ r_gene_to_idx = <<>>
    /\ r_dist = [n |-> 0, data |-> <<>>]
    /\ start = 0
    /\ mean_distances = <<>>
    /\ cell_reads = <<>>
    /\ progress = 0
    /\ proximity = <<>>
    /\ annotated = NotCopied

\* the first run of the precompute script: no earlier outputs kept
FirstRun ==
    /\ run = 1
    /\ first_index_file = NoFile
    /\ first_matrix_file = NoFile
    /\ pending = {}
    /\ work = <<>>

\* the ddh scoring pipeline not started
ScoreIdle ==
    /\ interactions = <<>>
    /\ dts = <<>>
    /\ gds = <<>>
    /\ p_drug_to_genes = <<>>
    /\ p_disease_to_genes = <<>>
    /\ ddh_G = [nodes |-> {}, adj |-> <<>>, weight |-> <<>>]
    /\ overlap_df = [columns |-> {}, rows |-> <<>>]
    /\ prox_df = [columns |-> {}, rows |-> <<>>]
    /\ combined_df = [columns |-> {}, rows |-> <<>>]
    /\ alpha = 1
    /\ beta = 1
    /\ ppc = "idle"

Init ==
    /\ ppi \in SeqsUpTo(PpiRowPool, MaxPpiRows)
    /\ dt \in SeqsUpTo(DtCellPool, MaxAssocRows)
    /\ gd \in SeqsUpTo(GdCellPool, MaxAssocRows)
    /\ cutoff \in Cutoffs
    /\ pc = "start"
    /\ all_genes = <<>>
    /\ gene_to_idx = <<>>
    /\ index_file = NoFile
    /\ G = EmptyGraph
    /\ dist = <<>>
    /\ matrix_file = NoFile
    /\ genes_in_graph = <<>>
    /\ k = 0
    /\ ReadIdle
    /\ ScoreIdle
    /\ FirstRun

\* lines 137-149: universe, index map, index file
BuildIndex ==
    /\ pc = "start"
    /\ \E it \in IterationOrders(build_gene_universe(ppi, dt, gd)) :
          LET genes == sorted(it)
          IN  /\ all_genes' = genes
              /\ gene_to_idx' = Enumerate(genes)
              /\ index_file' = FileOf(IndexRows(genes))
    /\ pc' = "graph"
    /\ UNCHANGED <<ppi, dt, gd, cutoff, G, dist, matrix_file, genes_in_graph, k>>
    /\ UNCHANGED <<rvars, svars, tvars>>

\* line 152
BuildGraph ==
    /\ pc = "graph"
    /\ G' = build_ppi_graph(ppi)
    /\ pc' = "alloc"
    /\ UNCHANGED <<ppi, dt, gd, cutoff, all_genes, gene_to_idx, index_file,
                   dist, matrix_file, genes_in_graph, k>>
    /\ UNCHANGED <<rvars, svars, tvars>>

\* lines 155-162: np.memmap(mode="w+", shape=(N, N)) creates the file and maps
\* N*N zero cells.  For N = 0 the file is created and then, depending on the
\* numpy release, mmap of the empty file raises ValueError or an empty array
\* is returned.
Allocate ==
    /\ pc = "alloc"
    /\ matrix_file' = FileOf(Allocated(N))
    /\ dist' = Allocated(N)
    /\ \/ pc' = "fill"
       \/ N = 0 /\ pc' = "failed"
    /\ UNCHANGED <<ppi, dt, gd, cutoff, all_genes, gene_to_idx, index_file,
                   G, genes_in_graph, k>>
    /\ UNCHANGED <<rvars, svars, tvars>>

\* line 165: dist[:] = max_uint16
FillSentinel ==
    /\ pc = "fill"
    /\ dist' = FilledSentinel(dist)
    /\ pc' = "diag"
    /\ UNCHANGED <<ppi, dt, gd, cutoff, all_genes, gene_to_idx, index_file,
                   G, matrix_file, genes_in_graph, k>>
    /\ UNCHANGED <<rvars, svars, tvars>>

\* lines 167-168: dist[i, i] = 0
ZeroDiagonal ==
    /\ pc = "diag"
    /\ dist' = ZeroedDiagonal(dist, N)
    /\ pc' = "select"
    /\ UNCHANGED <<ppi, dt, gd, cutoff, all_genes, gene_to_idx, index_file,
                   G, matrix_file, genes_in_graph, k>>
    /\ UNCHANGED <<rvars, svars, tvars>>

\* line 171: genes_in_graph = [g for g in all_genes if g in G]
SelectSources ==
    /\ pc = "select"
    /\ genes_in_graph' = GenesInGraph(all_genes, G)
    /\ k' = 0
    /\ pc' = "bfs"
    /\ UNCHANGED <<ppi, dt, gd, cutoff, all_genes, gene_to_idx, index_file,
                   G, dist, matrix_file>>
    /\ UNCHANGED <<rvars, svars, tvars>>

\* lines 180-191: one iteration of the source loop
BfsSource ==
    /\ pc = "bfs"
    /\ k < Len(genes_in_graph)
    /\ dist' = BfsFrom(dist, N, gene_to_idx, G, genes_in_graph[k + 1], cutoff)
    /\ k' = k + 1
    /\ UNCHANGED <<ppi, dt, gd, cutoff, pc, all_genes, gene_to_idx, index_file,
                   G, matrix_file, genes_in_graph>>
    /\ UNCHANGED <<rvars, svars, tvars>>

\* lines 193-196: dist.flush()
Flush ==
    /\ pc = "bfs"
    /\ k = Len(genes_in_graph)
    /\ matrix_file' = FileOf(dist)
    /\ pc' = "done"
    /\ UNCHANGED <<ppi, dt, gd, cutoff, all_genes, gene_to_idx, index_file,
                   G, dist, genes_in_graph, k>>
    /\ UNCHANGED <<rvars, svars, tvars>>

Next ==
    \/ BuildIndex
    \/ BuildGraph
    \/ Allocate
    \/ FillSentinel
    \/ ZeroDiagonal
    \/ SelectSources
    \/ BfsSource
    \/ Flush

Spec == Init /\ [][Next]_vars

-----------------------------------------------------------------------------
(* Properties of the write path.  The graph of the claims is defined from  *)
(* the input rows, not from G.                                             *)

\* unordered gene pairs of the edge list, and their endpoints
InputEdges == {{Strip(ppi[i][1]), Strip(ppi[i][2])} : i \in DOMAIN ppi}
InputNodes == UNION InputEdges

\* the genes that share an edge of E with a gene of S
Neighbours(E, S) ==
    {v \in UNION E : \E e \in E : v \in e /\ e \cap S # {}}

\* bs[i] is the set of genes within i - 1 edges of the first gene
RECURSIVE BallsUpTo(_, _, _)
BallsUpTo(E, bs, n) ==
    IF Len(bs) > n THEN bs
    ELSE BallsUpTo(E, Append(bs, bs[Len(bs)] \cup Neighbours(E, bs[Len(bs)])), n)

BallsIn(E, a) == BallsUpTo(E, <<{a}>>, Cardinality(UNION E))

Balls(a) == BallsIn(InputEdges, a)

HasPathIn(bs, b) == b \in bs[Len(bs)]

PathLenIn(bs, b) ==
    (CHOOSE i \in DOMAIN bs : b \in bs[i] /\ (i = 1 \/ b \notin bs[i - 1])) - 1

HasPath(a, b) == HasPathIn(Balls(a), b)

PathLen(a, b) == PathLenIn(Balls(a), b)

Universe == Range(all_genes)

Entry(a, b) == dist[Cell(N, gene_to_idx[a], gene_to_idx[b])]

\* C1: after the run, for graph genes a, b joined by a path of d edges the
\* entry [idx(a)][idx(b)] is d when there is no cutoff or d <= cutoff, and
\* the sentinel 65535 when d > cutoff; no cell ever holds more than 65535.
C1_ShortestPaths ==
    /\ \A c \in DOMAIN dist : dist[c] \in 0..max_uint16
    /\ pc = "done" =>
         LET E == InputEdges
         IN  \A a \in UNION E :
            LET bs == BallsIn(E, a)
            IN  \A b \in UNION E :
                   HasPathIn(bs, b) =>
                      LET d == PathLenIn(bs, b)
                      IN  IF ~cutoff.given \/ d <= cutoff.max
                          THEN Entry(a, b) = d
                          ELSE Entry(a, b) = max_uint16

\* a run with cutoff 1 where A-B (1 edge) is written and A-C (2 edges) is not
C1_Witness ==
    /\ pc = "done"
    /\ cutoff = SomeCutoff(1)
    /\ {gA, gB, gC} \subseteq InputNodes
    /\ HasPath(gA, gC) /\ PathLen(gA, gC) = 2
    /\ Entry(gA, gB) = 1
    /\ Entry(gA, gC) = max_uint16

\* C2: once the diagonal is zero-filled (before the first BFS) every universe
\* gene has entry [idx(g)][idx(g)] = 0, in and out of the graph, for every
\* cutoff, during the sweep and after it.
C2_DiagonalZero ==
    pc \in {"select", "bfs", "done"} =>
        \A g \in Universe : Entry(g, g) = 0

\* a finished run with a cutoff, a gene outside the graph and a BFS done
C2_Witness ==
    /\ pc = "done"
    /\ cutoff.given
    /\ k > 0
    /\ \E g \in Universe \ InputNodes : Entry(g, g) = 0

\* C3: after the run the entries of two graph genes joined by a path are
\* equal in both directions, with or without cutoff.
C3_Symmetric ==
    pc = "done" =>
        LET E == InputEdges
        IN  \A a \in UNION E :
            LET bs == BallsIn(E, a)
            IN  \A b \in UNION E :
                   HasPathIn(bs, b) => Entry(a, b) = Entry(b, a)

C3_Witness ==
    /\ pc = "done"
    /\ {gA, gC} \subseteq InputNodes
    /\ Entry(gA, gC) = 2
    /\ Entry(gC, gA) = 2

\* C4: after the run the entry of two distinct universe genes with no path
\* between them is the sentinel 65535.
C4_NoPathSentinel ==
    pc = "done" =>
        LET E == InputEdges
        IN  \A a \in Universe :
            LET bs == BallsIn(E, a)
            IN  \A b \in Universe :
                   (a # b /\ ~HasPathIn(bs, b)) => Entry(a, b) = max_uint16

\* two graph genes in different components
C4_Witness ==
    /\ pc = "done"
    /\ {gA, ga} \subseteq InputNodes
    /\ ~HasPath(gA, ga)
    /\ Entry(gA, ga) = max_uint16

\* C5: after the run the row and the column of a universe gene that is not
\* a graph node hold the sentinel everywhere but on the diagonal, which is 0.
C5_OutsideGraph ==
    pc = "done" =>
        \A x \in Universe \ InputNodes : \A y \in Universe :
            /\ Entry(x, y) = (IF x = y THEN 0 ELSE max_uint16)
            /\ Entry(y, x) = (IF x = y THEN 0 ELSE max_uint16)

\* a gene of the drug-target table only, sorted before graph genes
C5_Witness ==
    /\ pc = "done"
    /\ gAB \in Universe \ InputNodes
    /\ gB \in InputNodes
    /\ k > 0
    /\ Entry(gAB, gB) = max_uint16
    /\ Entry(gB, gAB) = max_uint16

\* the cells of the three inputs, trimmed
InputGenes ==
    {Strip(ppi[i][1]) : i \in DOMAIN ppi} \cup {Strip(ppi[i][2]) : i \in DOMAIN ppi}
    \cup {Strip(dt[i]) : i \in DOMAIN dt} \cup {Strip(gd[i]) : i \in DOMAIN gd}

\* the index map main() builds from the given inputs
IndexOf(ppi_rows, dt_col, gd_col) ==
    Enumerate(Sorted(build_gene_universe(ppi_rows, dt_col, gd_col)))

Permute(rows, f) == [i \in DOMAIN rows |-> rows[f[i]]]

\* C6: the universe is the deduplicated union of the genes of the three
\* inputs in ascending code-point order; gene_to_idx maps it one-to-one onto
\* 0..N-1 by position, covers every graph node, is what the index file
\* holds, and is the same for every order of the input rows (stated of the
\* index as built and as it stands when the run is done).
C6_UniverseIndex ==
    pc \in {"graph", "done"} =>
       LET U == InputGenes
       IN
       /\ Range(all_genes) = U
       /\ Len(all_genes) = Cardinality(U)
       /\ \A i \in 1..(Len(all_genes) - 1) : LexLess(all_genes[i], all_genes[i + 1])
       /\ DOMAIN gene_to_idx = U
       /\ \A i \in DOMAIN all_genes : gene_to_idx[all_genes[i]] = i - 1
       /\ {gene_to_idx[g] : g \in U} = 0..(N - 1)
       /\ InputNodes \subseteq DOMAIN gene_to_idx
       /\ pc = "done" => G.nodes \subseteq DOMAIN gene_to_idx
       /\ index_file = FileOf([i \in DOMAIN all_genes |-> <<all_genes[i], gene_to_idx[all_genes[i]]>>])
       /\ pc = "graph" =>
             /\ \A f \in Permutations(DOMAIN ppi) :
                   IndexOf(Permute(ppi, f), dt, gd) = gene_to_idx
             /\ \A f \in Permutations(DOMAIN dt) :
                   IndexOf(ppi, Permute(dt, f), gd) = gene_to_idx
             /\ \A f \in Permutations(DOMAIN gd) :
                   IndexOf(ppi, dt, Permute(gd, f)) = gene_to_idx

\* "B" and "B " are one gene, " E" and "E" are one gene
C6_Witness ==
    /\ pc = "done"
    /\ ppi = <<<<gBsp, gC>>, <<gA, gB>>>>
    /\ dt = <<gspE>>
    /\ gd = <<gE>>
    /\ all_genes = <<gA, gB, gC, gE>>
    /\ gene_to_idx[gE] = 3

\* C7: with an empty universe the run fails before the index file or the
\* matrix file exists and no 0 x 0 matrix is allocated.
C7_EmptyUniverseAborts ==
    (pc # "start" /\ InputGenes = {}) =>
        /\ ~index_file.exists
        /\ ~matrix_file.exists
        /\ pc \notin {"fill", "diag", "select", "bfs", "done"}

-----------------------------------------------------------------------------
(* A finished write run as one value: the steps of main() composed *)

RECURSIVE SweepFrom(_, _, _, _, _, _, _)
SweepFrom(d, n, idx, g, sources, c, j) ==
    IF j > Len(sources) THEN d
    ELSE SweepFrom(BfsFrom(d, n, idx, g, sources[j], c), n, idx, g, sources, c, j + 1)

MainRun(ppi_rows, dt_col, gd_col, c) ==
    LET genes == Sorted(build_gene_universe(ppi_rows, dt_col, gd_col))
        n == Len(genes)
        idx == Enumerate(genes)
        g == build_ppi_graph(ppi_rows)
        sources == GenesInGraph(genes, g)
        d0 == ZeroedDiagonal(FilledSentinel(Allocated(n)), n)
    IN  [all_genes |-> genes, gene_to_idx |-> idx, G |-> g,
         genes_in_graph |-> sources,
         dist |-> SweepFrom(d0, n, idx, g, sources, c, 1)]

\* the state a run of main() on the given inputs ends in, with the file
\* idx at the index path
WriteDoneWith(in, idx) ==
    LET r == MainRun(in.ppi, in.dt, in.gd, in.cutoff)
    IN  /\ ppi = in.ppi
        /\ dt = in.dt
        /\ gd = in.gd
        /\ cutoff = in.cutoff
        /\ pc = "done"
        /\ all_genes = r.all_genes
        /\ gene_to_idx = r.gene_to_idx
        /\ index_file = idx
        /\ G = r.G
        /\ dist = r.dist
        /\ matrix_file = FileOf(r.dist)
        /\ genes_in_graph = r.genes_in_graph
        /\ k = Len(r.genes_in_graph)

\* the state a run of main() on the given inputs ends in
WriteDone(in) ==
    LET r == MainRun(in.ppi, in.dt, in.gd, in.cutoff)
    IN  /\ ppi = in.ppi
        /\ dt = in.dt
        /\ gd = in.gd
        /\ cutoff = in.cutoff
        /\ pc = "done"
        /\ all_genes = r.all_genes
        /\ gene_to_idx = r.gene_to_idx
        /\ index_file = FileOf(IndexRows(r.all_genes))
        /\ G = r.G
        /\ dist = r.dist
        /\ matrix_file = FileOf(r.dist)
        /\ genes_in_graph = r.genes_in_graph
        /\ k = Len(r.genes_in_graph)

\* every finished run of Spec is the state WriteDone describes
MainRunAgrees ==
    pc = "done" =>
        WriteDone([ppi |-> ppi, dt |-> dt, gd |-> gd, cutoff |-> cutoff])

-----------------------------------------------------------------------------
(* Read path: annotate_pairs_with_ppi_from_matrix.py *)

\* a mean distance: float("inf") or the float sum / len, kept as a fraction
\* in lowest terms
RECURSIVE GCD(_, _)
GCD(a, b) == IF b = 0 THEN a ELSE GCD(b, a % b)

Inf == [inf |-> TRUE, num |-> 0, den |-> 1]
Ratio(a, b) ==
    LET g == GCD(a, b) IN [inf |-> FALSE, num |-> a \div g, den |-> b \div g]
Zero == Ratio(0, 1)

RECURSIVE SumSeq(_)
SumSeq(q) == IF q = <<>> THEN 0 ELSE Head(q) + SumSeq(Tail(q))

\* pd.read_csv of a text column followed by .astype(str).  A column whose
\* cells are all integers is read as int64, one whose cells are all numbers
\* or missing as float64, any other as object; "", "nan", "NaN" and "NA" are
\* missing values and print as "nan".
IsDigit(c) == c \in 48..57
IsIntText(t) == t # <<>> /\ \A i \in DOMAIN t : IsDigit(t[i])
DotOf(t) == {i \in DOMAIN t : t[i] = 46}
IsFloatText(t) ==
    \/ IsIntText(t)
    \/ \E i \in DotOf(t) : /\ IsIntText(SubSeq(t, 1, i - 1))
                           /\ IsIntText(SubSeq(t, i + 1, Len(t)))
nan == <<110, 97, 110>>
IsNaText(t) == t \in {<<>>, nan, <<78, 97, 78>>, <<78, 65>>}

\* str(int(t)): no leading zeros
RECURSIVE IntRepr(_)
IntRepr(t) == IF Len(t) > 1 /\ t[1] = 48 THEN IntRepr(Tail(t)) ELSE t

\* the digits after the point of str(float(t)): no trailing zeros
RECURSIVE FracRepr(_)
FracRepr(t) ==
    IF Len(t) > 1 /\ t[Len(t)] = 48 THEN FracRepr(SubSeq(t, 1, Len(t) - 1)) ELSE t

\* str(float(t))
FloatRepr(t) ==
    IF IsIntText(t) THEN IntRepr(t) \o <<46, 48>>
    ELSE LET i == CHOOSE j \in DotOf(t) : TRUE
         IN  IntRepr(SubSeq(t, 1, i - 1)) \o <<46>> \o FracRepr(SubSeq(t, i + 1, Len(t)))

ReadCsvColumn(col) ==
    LET present == {i \in DOMAIN col : ~IsNaText(col[i])}
    IN  IF present = DOMAIN col /\ \A i \in present : IsIntText(col[i])
        THEN [i \in DOMAIN col |-> IntRepr(col[i])]
        ELSE IF \A i \in present : IsFloatText(col[i])
        THEN [i \in DOMAIN col |-> IF i \in present THEN FloatRepr(col[i]) ELSE nan]
        ELSE [i \in DOMAIN col |-> IF i \in present THEN col[i] ELSE nan]

\* pd.read_csv(gene_index_path): columns gene_id (text) and index (int)
ReadIndexCsv(rows) ==
    LET gene_id == ReadCsvColumn([i \in DOMAIN rows |-> rows[i][1]])
    IN  [i \in DOMAIN rows |-> <<gene_id[i], rows[i][2]>>]

\* dict(zip(gene_id, index)): a later row replaces an earlier one
DictZip(rows) ==
    [g \in {Strip(rows[i][1]) : i \in DOMAIN rows} |->
        LET last == CHOOSE i \in DOMAIN rows :
                       /\ Strip(rows[i][1]) = g
                       /\ \A j \in DOMAIN rows : Strip(rows[j][1]) = g => j <= i
        IN  rows[last][2]]

\* d.get(key) is a non-empty list
HasGenes(d, key) == key \in DOMAIN d /\ d[key] # <<>>

\* [gene_to_idx.get(g, 0) for g in set(genes)]
IndexListDefaultZero(genes, g2i) ==
    LET gs == SetToSeq(Range(genes))
    IN  [i \in DOMAIN gs |-> IF gs[i] \in DOMAIN g2i THEN g2i[gs[i]] ELSE 0]

\* [gene_to_idx[g] for g in set(genes) if g in gene_to_idx]
IndexList(genes, g2i) ==
    LET gs == SetToSeq({g \in Range(genes) : g \in DOMAIN g2i})
    IN  [i \in DOMAIN gs |-> g2i[gs[i]]]

\* numpy indexing of an axis of length n: -n..-1 count from the end,
\* anything else outside 0..n-1 raises IndexError
NpInRange(n, i) == -n <= i /\ i < n
NpResolve(n, i) == IF i < 0 THEN i + n ELSE i

\* int(dist[i][j])
MatrixAt(m, i, j) == m.data[Cell(m.n, NpResolve(m.n, i), NpResolve(m.n, j))]

\* if d <= max_val
KeepsDistanceOrSentinel(d, max_val) == d <= max_val

\* if d < max_val  (line 213)
KeepsDistance(d, max_val) == d < max_val

\* lines 197-219.  reads: the cells read, in loop order, up to an IndexError;
\* raised: an IndexError left the function; md: the value returned
mean_distance_for_pair(drug_id, disease_id, d2g, s2g, g2i, m, max_val) ==
    IF ~HasGenes(d2g, drug_id) \/ ~HasGenes(s2g, disease_id)
    THEN [md |-> Inf, reads |-> <<>>, raised |-> FALSE]
    ELSE
    LET idx_d == IndexList(d2g[drug_id], g2i)
        idx_s == IndexList(s2g[disease_id], g2i)
    IN
    IF idx_d = <<>> \/ idx_s = <<>>
    THEN [md |-> Inf, reads |-> <<>>, raised |-> FALSE]
    ELSE
    LET ls == Len(idx_s)
        visits == [v \in 1..(Len(idx_d) * ls) |->
                      <<idx_d[((v - 1) \div ls) + 1], idx_s[((v - 1) % ls) + 1]>>]
        ok(v) == NpInRange(m.n, visits[v][1]) /\ NpInRange(m.n, visits[v][2])
        bad == {v \in DOMAIN visits : ~ok(v)}
        done == IF bad = {} THEN Len(visits)
                ELSE (CHOOSE v \in bad : \A w \in bad : v <= w) - 1
        reads == SubSeq(visits, 1, done)
        values == [v \in 1..done |-> MatrixAt(m, visits[v][1], visits[v][2])]
        dists == SelectSeq(values, LAMBDA d : KeepsDistance(d, max_val))
    IN  IF bad # {} THEN [md |-> Inf, reads |-> reads, raised |-> TRUE]
        ELSE IF dists = <<>> THEN [md |-> Inf, reads |-> reads, raised |-> FALSE]
        ELSE [md |-> Ratio(SumSeq(dists), Len(dists)), reads |-> reads,
              raised |-> FALSE]

\* 1 / (1 + d) with no case for inf
proximity_score_unguarded(d) == Ratio(d.den, d.den + d.num)

\* lines 270-274: 0.0 for inf, else 1 / (1 + d)
proximity_score(d) == IF d.inf THEN Zero ELSE Ratio(d.den, d.den + d.num)

\* np.memmap(path, mode="w+", shape=(n, n)): the file is overwritten with
\* n * n zero cells
MemmapModeWPlus(f, n) == FileOf(Allocated(n))

\* np.memmap(path, mode="r", shape=(n, n)): the file is left as it is
MemmapModeR(f, n) == f

\* load_distance_matrix (lines 153-179): N is the number of rows of the
\* index file; mode "r" needs N*N cells in the matrix file and cannot map an
\* empty file
LoadDistanceMatrix ==
    /\ rpc = "load"
    /\ LET n == Len(index_file.data)
       IN  IF /\ index_file.exists
              /\ matrix_file.exists
              /\ Len(matrix_file.data) >= n * n
              /\ (n = 0 => Len(matrix_file.data) > 0)
           THEN /\ r_gene_to_idx' = DictZip(ReadIndexCsv(index_file.data))
                /\ matrix_file' = MemmapModeR(matrix_file, n)
                /\ r_dist' = [n |-> n, data |-> matrix_file'.data]
                /\ rpc' = "annotate"
           ELSE /\ rpc' = "crashed"
                /\ UNCHANGED <<r_gene_to_idx, r_dist, matrix_file>>
    /\ UNCHANGED <<drug_to_genes, disease_to_genes, pairs_df, chunk_size, start,
                   mean_distances, cell_reads, progress, proximity, annotated>>
    /\ UNCHANGED <<ppi, dt, gd, cutoff, pc, all_genes, gene_to_idx, index_file,
                   G, dist, genes_in_graph, k>>
    /\ UNCHANGED <<svars, tvars>>

\* lines 236-237: the id columns .astype(str).str.strip()
StripIds(df) == [r \in DOMAIN df |-> <<Strip(df[r][1]), Strip(df[r][2])>>]

\* no copy: the trimmed columns are assigned on the caller's table
CallersTableAliased(df) == StripIds(df)

\* pairs_df = pairs_df.copy() (line 235): the caller's table is another
\* object and keeps its cells
CallersTable(df) == df

\* lines 235-242: annotate_pairs entered
CopyPairs ==
    /\ rpc = "annotate"
    /\ ~annotated.made
    /\ annotated' = [made |-> TRUE, rows |-> StripIds(pairs_df)]
    /\ pairs_df' = CallersTable(pairs_df)
    /\ UNCHANGED <<drug_to_genes, disease_to_genes, chunk_size, rpc,
                   r_gene_to_idx, r_dist, start, mean_distances, cell_reads,
                   progress, proximity>>
    /\ UNCHANGED <<wvars, svars, tvars>>

\* the score of row r of the copy (lines 250-260)
ScoreRow(r) ==
    mean_distance_for_pair(annotated.rows[r][1], annotated.rows[r][2],
                           drug_to_genes, disease_to_genes,
                           r_gene_to_idx, r_dist, max_uint16)

\* one chunk of annotate_pairs (lines 245-263); an IndexError ends the run
AnnotateChunk ==
    /\ rpc = "annotate"
    /\ annotated.made
    /\ start < Len(annotated.rows)
    /\ LET end == IF start + chunk_size < Len(annotated.rows)
                  THEN start + chunk_size ELSE Len(annotated.rows)
           res == [r \in (start + 1)..end |-> ScoreRow(r)]
           bad == {r \in (start + 1)..end : res[r].raised}
           last == IF bad = {} THEN end
                   ELSE CHOOSE r \in bad : \A q \in bad : r <= q
       IN  /\ cell_reads' = cell_reads \o [j \in 1..(last - start) |-> res[start + j].reads]
           /\ IF bad = {}
              THEN /\ mean_distances' = mean_distances \o
                                        [j \in 1..(end - start) |-> res[start + j].md]
                   /\ start' = end
                   /\ progress' = progress + 1
                   /\ rpc' = "annotate"
              ELSE /\ mean_distances' = mean_distances \o
                                        [j \in 1..(last - 1 - start) |-> res[start + j].md]
                   /\ start' = last - 1
                   /\ UNCHANGED progress
                   /\ rpc' = "crashed"
    /\ UNCHANGED <<drug_to_genes, disease_to_genes, pairs_df, chunk_size,
                   r_gene_to_idx, r_dist, proximity, annotated>>
    /\ UNCHANGED <<wvars, svars, tvars>>

\* lines 265-277: the columns mean_distance and proximity_score
ComputeProximity ==
    /\ rpc = "annotate"
    /\ annotated.made
    /\ start >= Len(annotated.rows)
    /\ proximity' = [r \in DOMAIN mean_distances |-> proximity_score(mean_distances[r])]
    /\ rpc' = "end"
    /\ UNCHANGED <<drug_to_genes, disease_to_genes, pairs_df, chunk_size,
                   r_gene_to_idx, r_dist, start, mean_distances, cell_reads,
                   progress, annotated>>
    /\ UNCHANGED <<wvars, svars, tvars>>

NextRead ==
    \/ LoadDistanceMatrix
    \/ CopyPairs
    \/ AnnotateChunk
    \/ ComputeProximity

\* finished write runs the read path is checked on: the chain A-B-C-a with
\* AB outside the graph, without and with cutoff, and two components
ChainRows == <<<<gA, gB>>, <<gBsp, gC>>, <<ga, gC>>>>
ReadFixtures ==
    {[ppi |-> ChainRows, dt |-> <<gAB>>, gd |-> <<>>, cutoff |-> None],
     [ppi |-> ChainRows, dt |-> <<gAB>>, gd |-> <<>>, cutoff |-> SomeCutoff(1)],
     [ppi |-> <<<<gA, gB>>, <<ga, ga>>>>, dt |-> <<gAB>>, gd |-> <<>>,
      cutoff |-> None]}

DrugGenePool == {gA, gB, gZ}
DiseaseGenePool == {gB, ga}
PairRowPool == {<<dPsp, sX>>, <<dQ, sX>>}

\* a dict with no key, or with the one key mapped to a list
DictsOf(key, lists) == {<<>>} \cup {[x \in {key} |-> l] : l \in lists}

\* two drugs with targets at different distances from the disease genes
TwoDrugs == [x \in {dP, dQ} |-> IF x = dP THEN <<gA>> ELSE <<ga>>]

ReadStart ==
    /\ rpc = "load"
    /\ r_gene_to_idx = <<>>
    /\ r_dist = [n |-> 0, data |-> <<>>]
    /\ start = 0
    /\ mean_distances = <<>>
    /\ cell_reads = <<>>
    /\ progress = 0
    /\ proximity = <<>>
    /\ annotated = NotCopied

InitRead ==
    /\ \E in \in ReadFixtures : WriteDone(in)
    /\ drug_to_genes \in DictsOf(dP, SeqsUpTo(DrugGenePool, MaxGeneList))
                         \cup {TwoDrugs}
    /\ disease_to_genes \in DictsOf(sX, SeqsUpTo(DiseaseGenePool, MaxGeneList))
    /\ pairs_df \in SeqsUpTo(PairRowPool, MaxPairs)
    /\ chunk_size \in 1..MaxChunk
    /\ ReadStart
    /\ ScoreIdle
    /\ FirstRun

SpecRead == InitRead /\ [][NextRead]_vars

\* The read path handed an index file that is not the one the run wrote:
\* one index value edited, or leading rows cut off
ForeignIndexFiles(rows) ==
    {FileOf([rows EXCEPT ![i] = <<rows[i][1], v>>]) :
        i \in DOMAIN rows, v \in (0 - Len(rows) - 1)..Len(rows)}
    \cup {FileOf(SubSeq(rows, i, Len(rows))) : i \in 2..Len(rows)}

ChainRun == [ppi |-> ChainRows, dt |-> <<gAB>>, gd |-> <<>>, cutoff |-> None]

InitForeign ==
    /\ \E f \in ForeignIndexFiles(IndexRows(MainRun(ChainRows, <<gAB>>, <<>>, None).all_genes)) :
          WriteDoneWith(ChainRun, f)
    /\ drug_to_genes \in {[x \in {dP} |-> l] : l \in {<<gA>>, <<gA, gB>>}}
    /\ disease_to_genes \in {[x \in {sX} |-> l] : l \in {<<gB>>, <<gB, ga>>}}
    /\ pairs_df = <<<<dPsp, sX>>>>
    /\ chunk_size = 1
    /\ ReadStart
    /\ ScoreIdle
    /\ FirstRun

SpecForeign == InitForeign /\ [][NextRead]_vars

-----------------------------------------------------------------------------
(* Properties of the read path *)

\* C8: a lookup with a row or column index outside [0, N) fails: every cell
\* the matrix returned a value for was addressed with i and j in 0..N-1.
C8_LookupInRange ==
    \A r \in DOMAIN cell_reads : \A v \in DOMAIN cell_reads[r] :
        /\ cell_reads[r][v][1] \in 0..(r_dist.n - 1)
        /\ cell_reads[r][v][2] \in 0..(r_dist.n - 1)

\* indices of the universe genes among the genes d lists for key
UniverseIdx(d, key) ==
    IF key \in DOMAIN d
    THEN {gene_to_idx[g] : g \in Range(d[key]) \cap DOMAIN gene_to_idx}
    ELSE {}

RECURSIVE SumCells(_)
SumCells(P) ==
    IF P = {} THEN 0
    ELSE LET c == CHOOSE x \in P : TRUE
         IN  dist[Cell(N, c[1], c[2])] + SumCells(P \ {c})

\* the mean over D x S of the matrix entries that are not the sentinel
ExpectedMean(r) ==
    LET D == UniverseIdx(drug_to_genes, Strip(pairs_df[r][1]))
        S == UniverseIdx(disease_to_genes, Strip(pairs_df[r][2]))
        valid == {c \in D \X S : dist[Cell(N, c[1], c[2])] # max_uint16}
    IN  IF valid = {} THEN Inf ELSE Ratio(SumCells(valid), Cardinality(valid))

\* C9: the mean distance of a scored pair is the arithmetic mean of the
\* matrix entries other than 65535 over D x S, D and S the sets of universe
\* indices of the drug's and the disease's genes, and +infinity when there
\* is none.
C9_MeanDistance ==
    \A r \in DOMAIN mean_distances : mean_distances[r] = ExpectedMean(r)

\* drug {A, B}, disease {B, a} on the chain: entries 1, 3, 0, 2, mean 1.5,
\* proximity 0.4
C9_Witness ==
    /\ rpc = "end"
    /\ ppi = ChainRows /\ ~cutoff.given
    /\ drug_to_genes = [x \in {dP} |-> <<gA, gB>>]
    /\ disease_to_genes = [x \in {sX} |-> <<gB, ga>>]
    /\ pairs_df = <<<<dPsp, sX>>>>
    /\ {MatrixAt(r_dist, c[1], c[2]) : c \in Range(cell_reads[1])} = {0, 1, 2, 3}
    /\ Len(cell_reads[1]) = 4
    /\ mean_distances = <<Ratio(3, 2)>>
    /\ proximity = <<Ratio(2, 5)>>

\* d has no list for key, an empty list, or a list with no gene of idx
NoGenes(d, key, idx) ==
    \/ key \notin DOMAIN d
    \/ d[key] = <<>>
    \/ Range(d[key]) \cap DOMAIN idx = {}

\* C10: a pair whose drug or disease has no gene set, an empty one, or no
\* gene in the gene -> index map scores +infinity, with proximity 0.0, and
\* reads no cell of the matrix.
C10_NoGenesNoRead ==
    \A r \in DOMAIN mean_distances :
        (\/ NoGenes(drug_to_genes, Strip(pairs_df[r][1]), r_gene_to_idx)
         \/ NoGenes(disease_to_genes, Strip(pairs_df[r][2]), r_gene_to_idx))
        => /\ mean_distances[r] = Inf
           /\ cell_reads[r] = <<>>
           /\ rpc = "end" => proximity[r] = Zero

\* the drug's only gene is not in the index, the disease's gene is
C10_Witness ==
    /\ rpc = "end"
    /\ drug_to_genes = [x \in {dP} |-> <<gZ>>]
    /\ disease_to_genes = [x \in {sX} |-> <<gB>>]
    /\ pairs_df = <<<<dPsp, sX>>>>
    /\ gB \in DOMAIN r_gene_to_idx
    /\ mean_distances = <<Inf>>
    /\ cell_reads = <<<<>>>>
    /\ proximity = <<Zero>>

-----------------------------------------------------------------------------
(* ddh package: graphs.py and scoring.py *)

\* floats as exact fractions in lowest terms; NaN is the missing value pandas
\* puts on the unmatched side of a join
NaN == [inf |-> FALSE, num |-> 0, den |-> 0]
IsNaN(x) == ~x.inf /\ x.den = 0
RAdd(a, b) == Ratio(a.num * b.den + b.num * a.den, a.den * b.den)
RMul(a, b) == Ratio(a.num * b.num, a.den * b.den)
RDiv(a, b) == Ratio(a.num * b.den, a.den * b.num)
RLess(a, b) == a.num * b.den < b.num * a.den
One == Ratio(1, 1)

\* a missing string cell (no character has a negative code)
NaNStr == <<-1>>

\* GeneGeneInteraction(gene1_id, gene2_id, weight): weight is None or a float
NoWeight == [given |-> FALSE, w |-> One]
Weight(a, b) == [given |-> TRUE, w |-> Ratio(a, b)]
GeneGeneInteraction(g1, g2, w) == [gene1_id |-> g1, gene2_id |-> g2, weight |-> w]

\* G.add_edge(u, v, weight=w): the attribute of an edge already present is
\* replaced
add_weighted_edge(g, u, v, w) ==
    LET h == add_edge([nodes |-> g.nodes, adj |-> g.adj], u, v)
    IN  [nodes |-> h.nodes, adj |-> h.adj,
         weight |-> [e \in DOMAIN g.weight \cup {{u, v}} |->
                        IF e = {u, v} THEN w ELSE g.weight[e]]]

\* graphs.build_ppi_graph, from interaction number j on
RECURSIVE AddInteractions(_, _, _)
AddInteractions(g, inters, j) ==
    IF j > Len(inters) THEN g
    ELSE LET inter == inters[j]
             w == IF inter.weight.given THEN inter.weight.w ELSE One
         IN  AddInteractions(add_weighted_edge(g, inter.gene1_id, inter.gene2_id, w),
                             inters, j + 1)

ddh_build_ppi_graph(inters) ==
    AddInteractions([nodes |-> {}, adj |-> <<>>, weight |-> <<>>], inters, 1)

\* nx.shortest_path_length(G, t, g): the hop count, or NetworkXNoPath
NoPath == -1
shortest_path_length(g, t, h) ==
    LET lengths == single_source_shortest_path_length(g, t, None)
    IN  IF h \in DOMAIN lengths THEN lengths[h] ELSE NoPath

\* a DataFrame: its columns and its rows, each row a function on the columns
DataFrame(cols, rows) == [columns |-> cols, rows |-> rows]
\* pd.DataFrame(rows) of a list of dicts: no rows, no columns
FrameOfDicts(cols, rows) ==
    IF rows = <<>> THEN DataFrame({}, <<>>) ELSE DataFrame(cols, rows)

\* sort_values: a stable sort by a strict order on rows
\* (before[i, j]: row i sorts before row j)
StableSort(rows, before) ==
    LET rank(i) == Cardinality({j \in DOMAIN rows :
                       \/ before[j, i]
                       \/ (~before[i, j] /\ j < i)}) + 1
    IN  [p \in DOMAIN rows |-> rows[CHOOSE i \in DOMAIN rows : rank(i) = p]]

\* ascending order of the key (drug_id, disease_id)
KeyLess(r1, r2) ==
    \/ LexLess(r1.drug_id, r2.drug_id)
    \/ r1.drug_id = r2.drug_id /\ LexLess(r1.disease_id, r2.disease_id)

RECURSIVE SumSet(_, _)
SumSet(S, f) ==
    IF S = {} THEN 0
    ELSE LET x == CHOOSE y \in S : TRUE IN f[x] + SumSet(S \ {x}, f)

\* default_distance of compute_network_proximity
default_distance == 5

\* 1.0 / (1.0 + mean_distance) in float arithmetic (1.0 / inf is 0.0)
OneOverOnePlus(md) == IF md.inf THEN Zero ELSE Ratio(md.den, md.den + md.num)

ProximityColumns == {"drug_id", "disease_id", "mean_distance", "proximity_score"}

\* lines 304-329: the row of one (drug, disease) pair
ProximityRow(g, drug_id, drug_genes, disease_id, dis_genes, dflt) ==
    LET pairs == {tg \in drug_genes \X dis_genes :
                     /\ tg[1] \in g.nodes
                     /\ tg[2] \in g.nodes
                     /\ shortest_path_length(g, tg[1], tg[2]) # NoPath}
        d == [tg \in pairs |-> shortest_path_length(g, tg[1], tg[2])]
        mean_distance == IF pairs # {}
                         THEN Ratio(SumSet(pairs, d), Cardinality(pairs))
                         ELSE dflt
    IN  [drug_id |-> drug_id, disease_id |-> disease_id,
         mean_distance |-> mean_distance,
         proximity_score |-> OneOverOnePlus(mean_distance)]

\* sort_values(by=[proximity_score, drug_id, disease_id], [False, True, True])
ProximityBefore(r1, r2) ==
    \/ RLess(r2.proximity_score, r1.proximity_score)
    \/ r1.proximity_score = r2.proximity_score /\ KeyLess(r1, r2)

compute_network_proximity(g, d2g, s2g, dflt) ==
    LET keys == SetToSeq((DOMAIN d2g) \X (DOMAIN s2g))
        rows == [i \in DOMAIN keys |->
                    ProximityRow(g, keys[i][1], d2g[keys[i][1]],
                                 keys[i][2], s2g[keys[i][2]], dflt)]
    IN  FrameOfDicts(ProximityColumns, StableSort(rows, [i, j \in DOMAIN rows |-> ProximityBefore(rows[i], rows[j])]))

\* mapping[key] = {gene}: the set of a key already present is replaced
AddAssocReplacing(mapping, key, gene) ==
    [x \in DOMAIN mapping \cup {key} |-> IF x = key THEN {gene} ELSE mapping[x]]

\* lines 32-34: if key not in mapping: mapping[key] = set(); mapping[key].add(gene)
AddAssoc(mapping, key, gene) ==
    [x \in DOMAIN mapping \cup {key} |->
        (IF x \in DOMAIN mapping THEN mapping[x] ELSE {})
        \cup (IF x = key THEN {gene} ELSE {})]

\* the loop over the records (lines 31-34 and 55-58), from record j on
RECURSIVE GroupAssocs(_, _, _, _)
GroupAssocs(mapping, keys, genes, j) ==
    IF j > Len(keys) THEN mapping
    ELSE GroupAssocs(AddAssoc(mapping, keys[j], genes[j]), keys, genes, j + 1)

\* build_drug_target_map / build_disease_gene_map: key -> set of gene ids
build_drug_target_map(drug_targets) ==
    GroupAssocs(<<>>, [i \in DOMAIN drug_targets |-> drug_targets[i].drug_id],
                [i \in DOMAIN drug_targets |-> drug_targets[i].gene_id], 1)

build_disease_gene_map(gene_diseases) ==
    GroupAssocs(<<>>, [i \in DOMAIN gene_diseases |-> gene_diseases[i].disease_id],
                [i \in DOMAIN gene_diseases |-> gene_diseases[i].gene_id], 1)

\* ";".join(genes)
RECURSIVE JoinSemicolon(_)
JoinSemicolon(genes) ==
    IF genes = <<>> THEN <<>>
    ELSE IF Len(genes) = 1 THEN genes[1]
    ELSE genes[1] \o <<59>> \o JoinSemicolon(Tail(genes))

OverlapColumns ==
    {"drug_id", "disease_id", "n_overlap", "overlapping_genes", "jaccard"}

\* the row with the union counted in place of the intersection
OverlapRowOfUnion(drug_id, drug_genes, disease_id, disease_genes) ==
    LET union == drug_genes \cup disease_genes
        n_overlap == Cardinality(union)
    IN  [drug_id |-> drug_id, disease_id |-> disease_id,
         n_overlap |-> Ratio(n_overlap, 1),
         overlapping_genes |-> JoinSemicolon(Sorted(union)),
         jaccard |-> Ratio(n_overlap, Cardinality(union))]

\* lines 97-113: the row of a pair with a non-empty intersection
OverlapRow(drug_id, drug_genes, disease_id, disease_genes) ==
    LET inter == drug_genes \cap disease_genes
        n_overlap == Cardinality(inter)
    IN  [drug_id |-> drug_id, disease_id |-> disease_id,
         n_overlap |-> Ratio(n_overlap, 1),
         overlapping_genes |-> JoinSemicolon(Sorted(inter)),
         jaccard |-> Ratio(n_overlap, Cardinality(drug_genes \cup disease_genes))]

\* sort_values(by=[n_overlap, jaccard, drug_id, disease_id],
\*             ascending=[False, False, True, True])
OverlapBefore(r1, r2) ==
    \/ RLess(r2.n_overlap, r1.n_overlap)
    \/ /\ r1.n_overlap = r2.n_overlap
       /\ \/ RLess(r2.jaccard, r1.jaccard)
          \/ r1.jaccard = r2.jaccard /\ KeyLess(r1, r2)

compute_overlap_table(d2g, s2g) ==
    LET keys == SetToSeq({ds \in (DOMAIN d2g) \X (DOMAIN s2g) :
                             d2g[ds[1]] \cap s2g[ds[2]] # {}})
        rows == [i \in DOMAIN keys |->
                    OverlapRow(keys[i][1], d2g[keys[i][1]],
                               keys[i][2], s2g[keys[i][2]])]
    IN  FrameOfDicts(OverlapColumns, StableSort(rows, [i, j \in DOMAIN rows |-> OverlapBefore(rows[i], rows[j])]))

\* pd.merge(left, right, on=[drug_id, disease_id], how="outer"): one row per
\* key of either frame, in key order, NaN where a frame has no row for the key
KeyOf(r) == <<r.drug_id, r.disease_id>>
KeysOf(df) == {KeyOf(df.rows[i]) : i \in DOMAIN df.rows}
RowOf(df, key) == df.rows[CHOOSE i \in DOMAIN df.rows : KeyOf(df.rows[i]) = key]
Missing(c) == IF c = "overlapping_genes" THEN NaNStr ELSE NaN
MergeKeys == {"drug_id", "disease_id"}

MergeOuter(left, right) ==
    LET cols == left.columns \cup right.columns
        keys == KeysOf(left) \cup KeysOf(right)
        cell(key, c) ==
            IF c = "drug_id" THEN key[1]
            ELSE IF c = "disease_id" THEN key[2]
            ELSE IF c \in left.columns
                 THEN IF key \in KeysOf(left) THEN RowOf(left, key)[c] ELSE Missing(c)
            ELSE IF key \in KeysOf(right) THEN RowOf(right, key)[c] ELSE Missing(c)
        rows == [i \in DOMAIN SetToSeq(keys) |->
                    [c \in cols |-> cell(SetToSeq(keys)[i], c)]]
    IN  DataFrame(cols, StableSort(rows, [i, j \in DOMAIN rows |-> KeyLess(rows[i], rows[j])]))

FillNa(x, v) == IF IsNaN(x) THEN v ELSE x

RMax(S) == CHOOSE x \in S : \A y \in S : ~RLess(x, y)
RMin(S) == CHOOSE x \in S : \A y \in S : ~RLess(y, x)

\* (n - min) / (max - min) when max > min, else 0.0
NormMinMax(n, col) ==
    IF col # {} /\ RLess(RMin(col), RMax(col))
    THEN RDiv(Ratio(n.num * RMin(col).den - RMin(col).num * n.den, n.den * RMin(col).den),
              Ratio(RMax(col).num * RMin(col).den - RMin(col).num * RMax(col).den,
                    RMax(col).den * RMin(col).den))
    ELSE Zero

\* lines 394-399: n_overlap / max_overlap when max_overlap > 0, else 0.0
NormOverlap(n, col) ==
    LET max_overlap == IF col = {} THEN Zero ELSE RMax(col)
    IN  IF RLess(Zero, max_overlap) THEN RDiv(n, max_overlap) ELSE Zero

\* the same keys in ascending order
CombinedBeforeAscending(r1, r2) ==
    \/ RLess(r1.combined_score, r2.combined_score)
    \/ /\ r1.combined_score = r2.combined_score
       /\ \/ RLess(r1.proximity_score, r2.proximity_score)
          \/ /\ r1.proximity_score = r2.proximity_score
             /\ RLess(r1.n_overlap, r2.n_overlap)

\* sort_values(by=[combined_score, proximity_score, n_overlap], all descending)
CombinedBefore(r1, r2) ==
    \/ RLess(r2.combined_score, r1.combined_score)
    \/ /\ r1.combined_score = r2.combined_score
       /\ \/ RLess(r2.proximity_score, r1.proximity_score)
          \/ /\ r1.proximity_score = r2.proximity_score
             /\ RLess(r2.n_overlap, r1.n_overlap)

CombinedColumns == {"n_overlap", "norm_overlap", "proximity_score", "combined_score"}

\* combine_overlap_and_proximity (lines 378-415); raised: pd.merge raised
\* KeyError because a frame has no column drug_id or disease_id
combine_overlap_and_proximity(o_df, p_df, a, b) ==
    IF ~(MergeKeys \subseteq o_df.columns) \/ ~(MergeKeys \subseteq p_df.columns)
    THEN [raised |-> TRUE, df |-> DataFrame({}, <<>>)]
    ELSE
    LET df == MergeOuter(p_df, o_df)
        n_overlap(r) == IF "n_overlap" \in df.columns
                        THEN FillNa(r["n_overlap"], Zero) ELSE Zero
        col == {n_overlap(df.rows[i]) : i \in DOMAIN df.rows}
        prox(r) == IF "proximity_score" \in df.columns
                   THEN FillNa(r["proximity_score"], Zero) ELSE Zero
        cell(r, c) ==
            IF c = "n_overlap" THEN n_overlap(r)
            ELSE IF c = "norm_overlap" THEN NormOverlap(n_overlap(r), col)
            ELSE IF c = "proximity_score" THEN prox(r)
            ELSE IF c = "combined_score"
                 THEN RAdd(RMul(Ratio(a, 1), NormOverlap(n_overlap(r), col)),
                           RMul(Ratio(b, 1), prox(r)))
            ELSE r[c]
        rows == [i \in DOMAIN df.rows |->
                    [c \in df.columns \cup CombinedColumns |-> cell(df.rows[i], c)]]
    IN  [raised |-> FALSE,
         df |-> DataFrame(df.columns \cup CombinedColumns,
                          StableSort(rows, [i, j \in DOMAIN rows |-> CombinedBefore(rows[i], rows[j])]))]

-----------------------------------------------------------------------------
(* The scoring functions as tests/test_scoring.py calls them *)

WriteIdle ==
    /\ ppi = <<>> /\ dt = <<>> /\ gd = <<>> /\ cutoff = None
    /\ pc = "idle"
    /\ all_genes = <<>> /\ gene_to_idx = <<>> /\ index_file = NoFile
    /\ G = EmptyGraph /\ dist = <<>> /\ matrix_file = NoFile
    /\ genes_in_graph = <<>> /\ k = 0

DrugTargetAssoc(d, g) == [drug_id |-> d, gene_id |-> g]
GeneDiseaseAssoc(g, d) == [gene_id |-> g, disease_id |-> d]
sY == <<121>>

InteractionPool ==
    {GeneGeneInteraction(gA, gB, NoWeight),
     GeneGeneInteraction(gB, gA, Weight(1, 2)),
     GeneGeneInteraction(gB, gC, Weight(2, 1))}
DrugTargetPool == {DrugTargetAssoc(dP, gA), DrugTargetAssoc(dP, gB), DrugTargetAssoc(dQ, gC)}
GeneDiseasePool == {GeneDiseaseAssoc(gA, sX), GeneDiseaseAssoc(gB, sX), GeneDiseaseAssoc(gZ, sY)}

\* the interaction lists loaded along with the association records
RecordInteractions ==
    {<<>>,
     <<GeneGeneInteraction(gA, gB, NoWeight), GeneGeneInteraction(gB, gC, Weight(2, 1))>>}

\* gene maps handed to the scoring functions directly
DrugMapPool ==
    {<<>>,
     [d \in {dP} |-> {}],
     [d \in {dP} |-> {gA}],
     [d \in {dP} |-> {gA, gB}],
     [d \in {dP, dQ} |-> IF d = dP THEN {gA} ELSE {gC}],
     [d \in {dP, dQ} |-> IF d = dP THEN {gZ} ELSE {gA, gB}]}
DiseaseMapPool ==
    {<<>>,
     [d \in {sX} |-> {}],
     [d \in {sX} |-> {gB}],
     [d \in {sX} |-> {gA, gB}],
     [d \in {sX, sY} |-> IF d = sX THEN {gC} ELSE {gA}]}

\* tables handed to the combiner directly: three pairs, each absent or present
PairKeys == <<<<dP, sX>>, <<dQ, sX>>, <<dQ, sY>>>>
OverlapValues == {Ratio(0, 1), Ratio(2, 1), Ratio(4, 1)}
ProximityValues ==
    <<{Ratio(1, 10)}, {Ratio(1, 10), Ratio(1, 2)}, {Ratio(1, 2), Ratio(9, 10)}>>
Absent == [inf |-> TRUE, num |-> 0, den |-> 0]

OverlapRowOf(key, n) ==
    [drug_id |-> key[1], disease_id |-> key[2], n_overlap |-> n,
     overlapping_genes |-> <<>>, jaccard |-> Ratio(1, 2)]
ProximityRowOf(key, p) ==
    [drug_id |-> key[1], disease_id |-> key[2],
     mean_distance |-> RDiv(Ratio(p.den - p.num, p.den), p), proximity_score |-> p]

\* the rows of the keys chosen present, in key order
TableOf(choice, kind) ==
    LET present == SelectSeq(<<1, 2, 3>>, LAMBDA i : choice[i] # Absent)
    IN  [j \in DOMAIN present |->
            IF kind = "overlap"
            THEN OverlapRowOf(PairKeys[present[j]], choice[present[j]])
            ELSE ProximityRowOf(PairKeys[present[j]], choice[present[j]])]

OverlapTables ==
    {DataFrame({}, <<>>)} \cup
    {DataFrame(OverlapColumns, TableOf(ch, "overlap")) :
        ch \in [1..3 -> OverlapValues \cup {Absent}]}
ProximityTables ==
    {DataFrame({}, <<>>)} \cup
    {DataFrame(ProximityColumns, TableOf(ch, "proximity")) :
        ch \in {c \in [1..3 -> UNION {ProximityValues[i] : i \in 1..3} \cup {Absent}] :
                   \A i \in 1..3 : c[i] \in ProximityValues[i] \cup {Absent}}}
Weights == {<<1, 1>>, <<2, 1>>, <<0, 3>>}

ScoreStart ==
    /\ ddh_G = [nodes |-> {}, adj |-> <<>>, weight |-> <<>>]
    /\ combined_df = DataFrame({}, <<>>)

InitScore ==
    /\ WriteIdle
    /\ ReadIdle
    /\ FirstRun
    /\ ScoreStart
    /\ \/ \* the records loaded from the CSV files
          /\ interactions \in RecordInteractions
          /\ dts \in SeqsUpTo(DrugTargetPool, MaxRecords)
          /\ gds \in SeqsUpTo(GeneDiseasePool, MaxRecords)
          /\ p_drug_to_genes = <<>> /\ p_disease_to_genes = <<>>
          /\ overlap_df = DataFrame({}, <<>>) /\ prox_df = DataFrame({}, <<>>)
          /\ alpha = 1 /\ beta = 1
          /\ ppc = "maps"
       \/ \* gene maps given
          /\ interactions \in SeqsUpTo(InteractionPool, MaxInteractions)
          /\ dts = <<>> /\ gds = <<>>
          /\ p_drug_to_genes \in DrugMapPool
          /\ p_disease_to_genes \in DiseaseMapPool
          /\ overlap_df = DataFrame({}, <<>>) /\ prox_df = DataFrame({}, <<>>)
          /\ alpha = 1 /\ beta = 1
          /\ ppc = "overlap"
       \/ \* tables given
          /\ interactions = <<>> /\ dts = <<>> /\ gds = <<>>
          /\ p_drug_to_genes = <<>> /\ p_disease_to_genes = <<>>
          /\ overlap_df \in OverlapTables
          /\ prox_df \in ProximityTables
          /\ \E w \in Weights : alpha = w[1] /\ beta = w[2]
          /\ ppc = "combine"

BuildMaps ==
    /\ ppc = "maps"
    /\ p_drug_to_genes' = build_drug_target_map(dts)
    /\ p_disease_to_genes' = build_disease_gene_map(gds)
    /\ ppc' = "overlap"
    /\ UNCHANGED <<interactions, dts, gds, ddh_G, overlap_df, prox_df,
                   combined_df, alpha, beta>>
    /\ UNCHANGED <<wvars, rvars, tvars>>

OverlapTable ==
    /\ ppc = "overlap"
    /\ overlap_df' = compute_overlap_table(p_drug_to_genes, p_disease_to_genes)
    /\ ppc' = "graph"
    /\ UNCHANGED <<interactions, dts, gds, p_drug_to_genes, p_disease_to_genes,
                   ddh_G, prox_df, combined_df, alpha, beta>>
    /\ UNCHANGED <<wvars, rvars, tvars>>

PpiGraph ==
    /\ ppc = "graph"
    /\ ddh_G' = ddh_build_ppi_graph(interactions)
    /\ ppc' = "proximity"
    /\ UNCHANGED <<interactions, dts, gds, p_drug_to_genes, p_disease_to_genes,
                   overlap_df, prox_df, combined_df, alpha, beta>>
    /\ UNCHANGED <<wvars, rvars, tvars>>

NetworkProximity ==
    /\ ppc = "proximity"
    /\ prox_df' = compute_network_proximity(ddh_G, p_drug_to_genes,
                      p_disease_to_genes, Ratio(default_distance, 1))
    /\ ppc' = "combine"
    /\ UNCHANGED <<interactions, dts, gds, p_drug_to_genes, p_disease_to_genes,
                   ddh_G, overlap_df, combined_df, alpha, beta>>
    /\ UNCHANGED <<wvars, rvars, tvars>>

Combine ==
    /\ ppc = "combine"
    /\ LET res == combine_overlap_and_proximity(overlap_df, prox_df, alpha, beta)
       IN  /\ combined_df' = res.df
           /\ ppc' = IF res.raised THEN "crashed" ELSE "ranked"
    /\ UNCHANGED <<interactions, dts, gds, p_drug_to_genes, p_disease_to_genes,
                   ddh_G, overlap_df, prox_df, alpha, beta>>
    /\ UNCHANGED <<wvars, rvars, tvars>>

NextScore ==
    \/ BuildMaps
    \/ OverlapTable
    \/ PpiGraph
    \/ NetworkProximity
    \/ Combine

SpecScore == InitScore /\ [][NextScore]_vars

\* both scorers: the matrix-based read path and the graph-based functions
InitScorers == InitRead \/ InitScore
NextScorers == NextRead \/ NextScore
SpecScorers == InitScorers /\ [][NextScorers]_vars

-----------------------------------------------------------------------------
(* Properties of the scorers *)

InteractionEdges ==
    {{interactions[i].gene1_id, interactions[i].gene2_id} : i \in DOMAIN interactions}

\* some gene of T reaches some gene of S along edges of E
Reaches(E, T, S) ==
    \E t \in T \cap UNION E : \E h \in S \cap UNION E : HasPathIn(BallsIn(E, t), h)

\* the rows of prox_df that compute_network_proximity made from the gene maps
ScoredRows ==
    IF ppc \in {"combine", "ranked", "crashed"}
    THEN {i \in DOMAIN prox_df.rows :
             /\ prox_df.rows[i].drug_id \in DOMAIN p_drug_to_genes
             /\ prox_df.rows[i].disease_id \in DOMAIN p_disease_to_genes}
    ELSE {}

\* C11: a pair whose drug or disease has no genes, or none of whose drug
\* genes reaches a disease gene, scores mean_distance = +infinity and
\* proximity_score = 0, in the matrix-based scorer and in
\* compute_network_proximity alike.
C11_NoEvidence ==
    /\ \A r \in DOMAIN mean_distances :
          (\/ NoGenes(drug_to_genes, Strip(pairs_df[r][1]), r_gene_to_idx)
           \/ NoGenes(disease_to_genes, Strip(pairs_df[r][2]), r_gene_to_idx))
          => mean_distances[r] = Inf /\ (rpc = "end" => proximity[r] = Zero)
    /\ \A i \in ScoredRows :
          LET r == prox_df.rows[i]
              T == p_drug_to_genes[r.drug_id]
              S == p_disease_to_genes[r.disease_id]
          IN  (T = {} \/ S = {} \/ ~Reaches(InteractionEdges, T, S))
              => r.mean_distance = Inf /\ r.proximity_score = Zero

\* p = 1 / (1 + d) for a finite d, as fractions
IsOneOverOnePlus(p, d) ==
    ~p.inf /\ p.den # 0 /\ p.num * (d.den + d.num) = p.den * d.den

\* the pairs <<mean_distance, proximity_score>> the scorers computed
ScoredPairs ==
    {<<mean_distances[r], proximity[r]>> : r \in DOMAIN proximity}
    \cup {<<prox_df.rows[i].mean_distance, prox_df.rows[i].proximity_score>> :
             i \in ScoredRows}

\* C12: proximity_score is 1/(1+mean_distance) for a finite mean_distance and
\* 0 for +infinity: it is 1 at distance 0, lies in (0, 1] for every finite
\* distance, is 0 exactly for +infinity, and of two pairs the one with the
\* smaller finite mean_distance has the strictly larger score.
C12_ProximityTransform ==
    /\ \A dp \in ScoredPairs :
          LET d == dp[1]
              p == dp[2]
          IN  /\ d.inf => p = Zero
              /\ ~d.inf => /\ IsOneOverOnePlus(p, d)
                           /\ RLess(Zero, p)
                           /\ ~RLess(One, p)
              /\ d = Zero => p = One
              /\ p = Zero => d.inf
    /\ \A dp1, dp2 \in ScoredPairs :
          (~dp1[1].inf /\ ~dp2[1].inf /\ RLess(dp1[1], dp2[1]))
          => RLess(dp2[2], dp1[2])

\* two scored pairs with finite distances 1 and 2, and one at +infinity
C12_Witness ==
    /\ rpc = "end"
    /\ Len(proximity) = 2
    /\ mean_distances = <<Ratio(1, 1), Ratio(2, 1)>>
    /\ proximity = <<Ratio(1, 2), Ratio(1, 3)>>

\* a scored pair at +infinity and one at distance 0
C12_WitnessEnds ==
    /\ rpc = "end"
    /\ mean_distances = <<Inf, Zero>>
    /\ proximity = <<Zero, One>>

-----------------------------------------------------------------------------
(* Properties of the score combiner *)

Ranked == combined_df.rows
KeysIn(df) == IF MergeKeys \subseteq df.columns THEN KeysOf(df) ELSE {}

\* the values the inputs give for a key: n_overlap (0 when the overlap table
\* has no row) and proximity_score (0.0 when the proximity table has none)
InputOverlap(key) ==
    IF key \in KeysIn(overlap_df) THEN RowOf(overlap_df, key)["n_overlap"] ELSE Zero
InputProximity(key) ==
    IF key \in KeysIn(prox_df) THEN RowOf(prox_df, key)["proximity_score"] ELSE Zero

OverlapsOfBatch == {InputOverlap(key) : key \in KeysIn(overlap_df) \cup KeysIn(prox_df)}

Score(a, norm, b, prox) == RAdd(RMul(Ratio(a, 1), norm), RMul(Ratio(b, 1), prox))

\* C13: normalized_overlap = (n_overlap - min) / (max - min) over the batch,
\* and combined_score = alpha * normalized_overlap + beta * proximity_score
\* with proximity_score as it came in.
C13_MinMaxCombined ==
    ppc = "ranked" =>
        \A i \in DOMAIN Ranked :
            LET r == Ranked[i]
                norm == NormMinMax(InputOverlap(KeyOf(r)), OverlapsOfBatch)
            IN  /\ r["norm_overlap"] = norm
                /\ r["proximity_score"] = InputProximity(KeyOf(r))
                /\ r["combined_score"] =
                      Score(alpha, norm, beta, InputProximity(KeyOf(r)))

\* C14: when every row of the batch has the same n_overlap, the normalized
\* overlap is 0 on every row and combined_score = beta * proximity_score.
C14_DegenerateOverlap ==
    (ppc = "ranked" /\ Cardinality(OverlapsOfBatch) = 1) =>
        \A i \in DOMAIN Ranked :
            /\ Ranked[i]["norm_overlap"] = Zero
            /\ Ranked[i]["combined_score"] =
                  RMul(Ratio(beta, 1), InputProximity(KeyOf(Ranked[i])))

\* a finite number: not NaN, not infinite
IsNumber(x) == ~x.inf /\ x.den # 0

\* C15: the combiner returns, for any input tables, one row for every pair
\* of either table, with n_overlap = 0 for a pair only in the proximity
\* table, proximity_score = 0.0 for a pair only in the overlap table, and a
\* combined_score that is a number on every row.
C15_OuterJoin ==
    /\ ppc # "crashed"
    /\ ppc = "ranked" =>
          /\ {KeyOf(Ranked[i]) : i \in DOMAIN Ranked}
                = KeysIn(overlap_df) \cup KeysIn(prox_df)
          /\ Len(Ranked) = Cardinality(KeysIn(overlap_df) \cup KeysIn(prox_df))
          /\ \A i \in DOMAIN Ranked :
                LET r == Ranked[i]
                IN  /\ KeyOf(r) \notin KeysIn(overlap_df) => r["n_overlap"] = Zero
                    /\ KeyOf(r) \notin KeysIn(prox_df) => r["proximity_score"] = Zero
                    /\ IsNumber(r["combined_score"])

\* r1's key (combined_score, proximity_score, n_overlap) is >= r2's
KeyAtLeast(r1, r2) ==
    \/ RLess(r2["combined_score"], r1["combined_score"])
    \/ /\ r1["combined_score"] = r2["combined_score"]
       /\ \/ RLess(r2["proximity_score"], r1["proximity_score"])
          \/ /\ r1["proximity_score"] = r2["proximity_score"]
             /\ ~RLess(r1["n_overlap"], r2["n_overlap"])

\* C16: the combiner's output is in descending order of combined_score, then
\* proximity_score, then n_overlap: of two consecutive rows the first has
\* the lexicographically greater or equal key.
C16_SortedDescending ==
    ppc = "ranked" =>
        \A i \in 1..(Len(Ranked) - 1) : KeyAtLeast(Ranked[i], Ranked[i + 1])

\* three rows; the first two tie on combined_score and are ordered by
\* proximity_score, the third has a smaller combined_score
C16_Witness ==
    /\ ppc = "ranked"
    /\ Len(Ranked) = 3
    /\ Ranked[1]["combined_score"] = Ranked[2]["combined_score"]
    /\ RLess(Ranked[2]["proximity_score"], Ranked[1]["proximity_score"])
    /\ RLess(Ranked[3]["combined_score"], Ranked[2]["combined_score"])

-----------------------------------------------------------------------------
(* Properties of the graph builders *)

\* both builders: the precompute script's and the ddh package's
InitBuilders == Init \/ InitScore
NextBuilders == Next \/ NextScore
SpecBuilders == InitBuilders /\ [][NextBuilders]_vars

\* the unordered pairs joined in g
EdgesOf(g) == {{u, v} : u \in g.nodes, v \in g.nodes} \cap
              {e \in SUBSET g.nodes : \E u \in e : \E v \in g.adj[u] : e = {u, v}}

\* C20: the graph built from an edge list is undirected with one edge per
\* unordered gene pair: its edges are exactly the unordered pairs
\* {gene1, gene2} of the list and its nodes their endpoints.
C20_UndirectedSimple ==
    /\ ppc \in {"proximity", "combine", "ranked", "crashed"} =>
          /\ ddh_G.nodes = UNION InteractionEdges
          /\ EdgesOf(ddh_G) = InteractionEdges
          /\ DOMAIN ddh_G.weight = InteractionEdges
          /\ \A u \in ddh_G.nodes : \A v \in ddh_G.adj[u] : u \in ddh_G.adj[v]
    /\ pc \in {"alloc", "fill", "diag", "select", "bfs", "done", "failed"} =>
          /\ G.nodes = InputNodes
          /\ EdgesOf(G) = InputEdges
          /\ \A u \in G.nodes : \A v \in G.adj[u] : u \in G.adj[v]

\* the list holds (A, B) and (B, A); the graph has the one edge {A, B}
C20_Witness ==
    /\ ppc = "proximity"
    /\ Len(interactions) = 2
    /\ interactions[1].gene1_id = gA /\ interactions[1].gene2_id = gB
    /\ interactions[2].gene1_id = gB /\ interactions[2].gene2_id = gA
    /\ EdgesOf(ddh_G) = {{gA, gB}}
    /\ ddh_G.adj[gA] = {gB} /\ ddh_G.adj[gB] = {gA}

-----------------------------------------------------------------------------
(* Round trip of the matrix store *)

g1 == <<49>>
g2 == <<50>>

\* integer gene ids, and a missing gene_id cell in gene_disease.csv, which
\* .astype(str) turns into the gene "nan"
NumericRun == [ppi |-> <<<<g1, g2>>>>, dt |-> <<>>, gd |-> <<nan>>, cutoff |-> None]

InitRoundTrip ==
    /\ \E in \in ReadFixtures \cup {NumericRun} : WriteDone(in)
    /\ drug_to_genes \in {[x \in {dP} |-> l] : l \in {<<gA, gB>>, <<g1>>}}
    /\ disease_to_genes \in {[x \in {sX} |-> l] : l \in {<<gB, ga>>, <<g2>>}}
    /\ pairs_df \in SeqsUpTo(PairRowPool, MaxPairs)
    /\ chunk_size \in 1..MaxChunk
    /\ ReadStart
    /\ ScoreIdle
    /\ FirstRun

SpecRoundTrip == InitRoundTrip /\ [][NextRead]_vars

\* C17: the read path, given the index file and the matrix file of one write
\* run, takes N from the index file and reads at [idx(a)][idx(b)], for all
\* universe genes a and b, the value the write path held at cell
\* idx(a) * N + idx(b) when it flushed.
C17_RoundTrip ==
    rpc \in {"annotate", "end"} =>
        /\ r_dist.n = N
        /\ \A a \in Universe : \A b \in Universe :
              /\ a \in DOMAIN r_gene_to_idx
              /\ b \in DOMAIN r_gene_to_idx
              /\ MatrixAt(r_dist, r_gene_to_idx[a], r_gene_to_idx[b])
                    = dist[Cell(N, gene_to_idx[a], gene_to_idx[b])]

-----------------------------------------------------------------------------
(* The precompute script run twice on the same inputs *)

\* a second invocation of main() with the same arguments: a new process,
\* the files of the first run still at the output paths
RunAgain ==
    /\ pc = "done"
    /\ run = 1
    /\ run' = 2
    /\ first_index_file' = index_file
    /\ first_matrix_file' = matrix_file
    /\ pc' = "start"
    /\ all_genes' = <<>>
    /\ gene_to_idx' = <<>>
    /\ G' = EmptyGraph
    /\ dist' = <<>>
    /\ genes_in_graph' = <<>>
    /\ k' = 0
    /\ UNCHANGED <<ppi, dt, gd, cutoff, index_file, matrix_file>>
    /\ UNCHANGED <<rvars, svars, pending, work>>

NextTwice == Next \/ RunAgain

SpecTwice == Init /\ [][NextTwice]_vars

\* C18: a second run of the precompute script on the same input tables
\* leaves the index file and the matrix file the first run left, whatever
\* order the gene sets are iterated in.
C18_Idempotent ==
    (pc = "done" /\ run = 2) =>
        /\ index_file = first_index_file
        /\ matrix_file = first_matrix_file

\* a rerun over a universe of four genes, three of them on a path
C18_Witness ==
    /\ pc = "done"
    /\ run = 2
    /\ N = 4
    /\ \E i \in DOMAIN matrix_file.data : matrix_file.data[i] = 2
    /\ \E i \in DOMAIN matrix_file.data : matrix_file.data[i] = max_uint16
    /\ matrix_file = first_matrix_file

-----------------------------------------------------------------------------
(* Frame of the read path *)

\* C19: no step of the read path changes the matrix file or the index file,
\* and once the matrix is opened no step changes a cell of the mapped matrix
\* or the gene -> index map.
ReadStepKeeps ==
    /\ matrix_file' = matrix_file
    /\ index_file' = index_file
    /\ (rpc = "annotate" => (r_dist' = r_dist /\ r_gene_to_idx' = r_gene_to_idx))

C19_ReadOnly == [][(rpc \in {"load", "annotate"}) => ReadStepKeeps]_vars

\* two pairs scored, cells read, and the matrix file still what the write
\* run flushed
C19_Witness ==
    /\ rpc = "end"
    /\ Len(mean_distances) = 2
    /\ cell_reads[1] # <<>> /\ cell_reads[2] # <<>>
    /\ matrix_file = FileOf(dist)
    /\ r_dist.data = dist

-----------------------------------------------------------------------------
(* Edge weights of graphs.build_ppi_graph *)

\* the weights the list supplies for the unordered pair e (1.0 for None)
SuppliedWeights(e) ==
    {(IF interactions[i].weight.given THEN interactions[i].weight.w ELSE One) :
        i \in {j \in DOMAIN interactions :
                  {interactions[j].gene1_id, interactions[j].gene2_id} = e}}

\* C21: the weight of a graph edge is a weight supplied for its gene pair
\* (1.0 when none is supplied), and when the list supplies the pair several
\* times, in either orientation, with different weights, the edge carries
\* the maximum of them.
C21_MaxWeight ==
    ppc \in {"proximity", "combine", "ranked", "crashed"} =>
        \A e \in DOMAIN ddh_G.weight :
            /\ ddh_G.weight[e] \in SuppliedWeights(e)
            /\ ddh_G.weight[e] = RMax(SuppliedWeights(e))

-----------------------------------------------------------------------------
(* Properties of the overlap table and of the gene maps *)

\* set(s.split(";"))
RECURSIVE SplitSemicolon(_)
SplitSemicolon(s) ==
    LET at == {i \in DOMAIN s : s[i] = 59}
    IN  IF at = {} THEN {s}
        ELSE LET i == CHOOSE j \in at : \A m \in at : j <= m
             IN  {SubSeq(s, 1, i - 1)} \cup SplitSemicolon(SubSeq(s, i + 1, Len(s)))

\* the (drug, disease) pairs of the gene maps whose gene sets intersect
IntersectingPairs ==
    {ds \in (DOMAIN p_drug_to_genes) \X (DOMAIN p_disease_to_genes) :
        p_drug_to_genes[ds[1]] \cap p_disease_to_genes[ds[2]] # {}}

\* C22: compute_overlap_table returns exactly one row for every (drug,
\* disease) pair whose gene sets intersect and no other row; in each row
\* n_overlap is the size of the intersection and at least 1,
\* overlapping_genes lists exactly the intersection, and jaccard is
\* |intersection| / |union|, in (0, 1].
C22_OverlapRows ==
    ppc \in {"graph", "proximity"} =>
        /\ {KeyOf(overlap_df.rows[i]) : i \in DOMAIN overlap_df.rows} = IntersectingPairs
        /\ Len(overlap_df.rows) = Cardinality(IntersectingPairs)
        /\ \A i \in DOMAIN overlap_df.rows :
              LET r == overlap_df.rows[i]
                  T == p_drug_to_genes[r.drug_id]
                  S == p_disease_to_genes[r.disease_id]
              IN  /\ r.n_overlap = Ratio(Cardinality(T \cap S), 1)
                  /\ ~RLess(r.n_overlap, One)
                  /\ SplitSemicolon(r.overlapping_genes) = T \cap S
                  /\ r.jaccard.num * Cardinality(T \cup S)
                        = r.jaccard.den * Cardinality(T \cap S)
                  /\ IsNumber(r.jaccard)
                  /\ RLess(Zero, r.jaccard)
                  /\ ~RLess(One, r.jaccard)

\* q targets A and B, both genes of x: one row with n_overlap 2, "A;B" and
\* jaccard 1; p targets Z only and has no row
C22_Witness ==
    /\ ppc = "graph"
    /\ DOMAIN p_drug_to_genes = {dP, dQ}
    /\ Len(overlap_df.rows) = 1
    /\ overlap_df.rows[1].drug_id = dQ
    /\ overlap_df.rows[1].n_overlap = Ratio(2, 1)
    /\ overlap_df.rows[1].overlapping_genes = <<65, 59, 66>>
    /\ overlap_df.rows[1].jaccard = One

\* one gene of two shared: n_overlap 1, jaccard 1/2
C22_WitnessPartial ==
    /\ ppc = "graph"
    /\ Len(overlap_df.rows) = 1
    /\ overlap_df.rows[1].n_overlap = One
    /\ overlap_df.rows[1].jaccard = Ratio(1, 2)

\* the records of a list without the repetitions, in order of first occurrence
Dedup(recs) ==
    LET firsts == {i \in DOMAIN recs : \A j \in 1..(i - 1) : recs[j] # recs[i]}
    IN  [p \in 1..Cardinality(firsts) |->
            recs[CHOOSE i \in firsts : Cardinality({j \in firsts : j < i}) = p - 1]]

\* the gene maps are the records grouped by drug and by disease
MapsGrouped ==
    /\ DOMAIN p_drug_to_genes = {dts[i].drug_id : i \in DOMAIN dts}
    /\ DOMAIN p_disease_to_genes = {gds[i].disease_id : i \in DOMAIN gds}
    /\ \A d \in DOMAIN p_drug_to_genes :
          /\ p_drug_to_genes[d]
                = {dts[i].gene_id : i \in {j \in DOMAIN dts : dts[j].drug_id = d}}
          /\ p_drug_to_genes[d] # {}
    /\ \A d \in DOMAIN p_disease_to_genes :
          /\ p_disease_to_genes[d]
                = {gds[i].gene_id : i \in {j \in DOMAIN gds : gds[j].disease_id = d}}
          /\ p_disease_to_genes[d] # {}
    /\ build_drug_target_map(Dedup(dts)) = p_drug_to_genes
    /\ build_disease_gene_map(Dedup(gds)) = p_disease_to_genes

\* C23: build_drug_target_map and build_disease_gene_map group the records:
\* the keys are exactly the drug (disease) ids that occur in a record, each
\* key maps to exactly the set of gene ids of its records, no key maps to
\* the empty set, and repeating a record does not change the result.
C23_GroupedMaps == [][ppc = "maps" => MapsGrouped']_vars

\* the records (p, A), (p, B)
\* give p -> {A, B}; the disease records repeat (A, x)
C23_Witness ==
    /\ ppc = "overlap"
    /\ dts = <<DrugTargetAssoc(dP, gA), DrugTargetAssoc(dP, gB)>>
    /\ gds = <<GeneDiseaseAssoc(gA, sX), GeneDiseaseAssoc(gA, sX)>>
    /\ p_drug_to_genes = [d \in {dP} |-> {gA, gB}]
    /\ p_disease_to_genes = [d \in {sX} |-> {gA}]

-----------------------------------------------------------------------------
(* Phases and termination of the write path *)

\* main() is one sequential process: a step that can be taken is taken
InitLive ==
    /\ Init
    /\ ppi \in SeqsUpTo({<<gA, gB>>, <<gBsp, gC>>}, MaxLiveRows)
    /\ dt \in {<<>>, <<gAB>>}
    /\ gd = <<>>
    /\ cutoff = None

SpecLive == InitLive /\ [][Next]_vars /\ WF_vars(Next)

\* the order of the positions of main()
PhaseOrder ==
    {<<"start", "graph">>, <<"graph", "alloc">>, <<"alloc", "fill">>,
     <<"fill", "diag">>, <<"diag", "select">>, <<"select", "bfs">>,
     <<"bfs", "done">>}

\* a cell takes a value other than the sentinel
WritesDistance ==
    \E c \in DOMAIN dist' :
        /\ dist'[c] # max_uint16
        /\ (c \in DOMAIN dist => dist'[c] # dist[c])

PhaseStep ==
    /\ pc' # pc => <<pc, pc'>> \in PhaseOrder
    /\ index_file' # index_file => (pc = "start" /\ ~matrix_file.exists)
    /\ (matrix_file'.exists /\ ~matrix_file.exists) =>
          /\ pc = "alloc"
          /\ index_file.exists
          /\ Len(matrix_file'.data) = N * N
    /\ (WritesDistance /\ pc # "alloc") => pc \in {"diag", "bfs"}
    /\ (pc = "bfs" /\ pc' = "bfs") => (k < Len(genes_in_graph) /\ k' = k + 1)
    /\ pc' = "done" =>
          /\ k = Len(genes_in_graph)
          /\ dist' = dist
          /\ matrix_file' = FileOf(dist)

PhaseInv ==
    /\ pc \in {"start", "graph", "alloc", "fill", "diag", "select", "bfs", "done"}
    /\ pc # "start" => index_file = FileOf(IndexRows(all_genes))
    /\ pc \in {"fill", "diag", "select", "bfs", "done"} =>
          /\ matrix_file.exists
          /\ Len(matrix_file.data) = N * N
          /\ Len(dist) = N * N
    /\ pc = "diag" => \A c \in DOMAIN dist : dist[c] = max_uint16
    /\ pc = "select" =>
          \A i, j \in 0..(N - 1) :
              dist[Cell(N, i, j)] = (IF i = j THEN 0 ELSE max_uint16)
    /\ pc \in {"bfs", "done"} =>
          /\ k <= Len(genes_in_graph)
          /\ Range(genes_in_graph) = InputNodes
          /\ \A i, j \in DOMAIN genes_in_graph :
                genes_in_graph[i] = genes_in_graph[j] => i = j
    /\ pc = "done" => (k = Len(genes_in_graph) /\ matrix_file = FileOf(dist))

NonEmptyUniverse == InputGenes # {}

-----------------------------------------------------------------------------
(* The BFS sweep of the write path run by several workers.  Each worker     *)
(* runs the body of the source loop of main() (lines 181-189) for the        *)
(* sources it takes; the writes dist[i, j] = d of different workers          *)
(* interleave.                                                               *)

Workers == 1..MaxWorkers

Idle == [busy |-> FALSE, source |-> <<>>, lengths |-> <<>>, todo |-> {}]

\* dist[j, i] = d: row and column exchanged
WriteCellTransposed(d, n, idx, i, h, v) ==
    IF h \in DOMAIN idx /\ v <= max_uint16
    THEN [d EXCEPT ![Cell(n, idx[h], i)] = v]
    ELSE d

\* lines 185-189: j = gene_to_idx.get(h); if j is None: continue;
\* if d <= max_uint16: dist[i, j] = d
WriteCell(d, n, idx, i, h, v) ==
    IF h \in DOMAIN idx /\ v <= max_uint16
    THEN [d EXCEPT ![Cell(n, i, idx[h])] = v]
    ELSE d

InitSweep ==
    /\ Init
    /\ ppi \in SeqsUpTo({<<gA, gB>>, <<gBsp, gC>>, <<ga, ga>>}, MaxSweepRows)
    /\ dt = <<gAB>>
    /\ gd = <<>>
    /\ cutoff \in {None, SomeCutoff(1)}

\* the sources are handed to the workers in place of the sequential loop
StartWorkers ==
    /\ pc = "bfs"
    /\ pending' = Range(genes_in_graph)
    /\ work' = [w \in Workers |-> Idle]
    /\ pc' = "sweep"
    /\ UNCHANGED <<ppi, dt, gd, cutoff, all_genes, gene_to_idx, index_file, G,
                   dist, matrix_file, genes_in_graph, k>>
    /\ UNCHANGED <<rvars, svars, run, first_index_file, first_matrix_file>>

\* lines 181-183: a free worker takes a source and runs the BFS from it
WorkerTake(w) ==
    /\ pc = "sweep"
    /\ ~work[w].busy
    /\ \E g \in pending :
          LET lengths == single_source_shortest_path_length(G, g, cutoff)
          IN  /\ work' = [work EXCEPT ![w] = [busy |-> TRUE, source |-> g,
                                              lengths |-> lengths,
                                              todo |-> DOMAIN lengths]]
              /\ pending' = pending \ {g}
    /\ UNCHANGED <<wvars, rvars, svars, run, first_index_file, first_matrix_file>>

\* lines 184-189: one pass of the inner loop of a worker's source
WorkerWrite(w) ==
    /\ pc = "sweep"
    /\ work[w].busy
    /\ \E h \in work[w].todo :
          /\ dist' = WriteCell(dist, N, gene_to_idx, gene_to_idx[work[w].source],
                               h, work[w].lengths[h])
          /\ work' = [work EXCEPT ![w] =
                          IF work[w].todo = {h} THEN Idle
                          ELSE [work[w] EXCEPT !.todo = work[w].todo \ {h}]]
    /\ UNCHANGED <<ppi, dt, gd, cutoff, pc, all_genes, gene_to_idx, index_file,
                   G, matrix_file, genes_in_graph, k>>
    /\ UNCHANGED <<rvars, svars, run, first_index_file, first_matrix_file, pending>>

\* lines 193-196: dist.flush() once every worker is through
SweepFlush ==
    /\ pc = "sweep"
    /\ pending = {}
    /\ \A w \in Workers : ~work[w].busy
    /\ matrix_file' = FileOf(dist)
    /\ k' = Len(genes_in_graph)
    /\ pc' = "done"
    /\ UNCHANGED <<ppi, dt, gd, cutoff, all_genes, gene_to_idx, index_file,
                   G, dist, genes_in_graph>>
    /\ UNCHANGED <<rvars, svars, tvars>>

NextSweep ==
    \/ BuildIndex
    \/ BuildGraph
    \/ Allocate
    \/ FillSentinel
    \/ ZeroDiagonal
    \/ SelectSources
    \/ StartWorkers
    \/ \E w \in Workers : WorkerTake(w)
    \/ \E w \in Workers : WorkerWrite(w)
    \/ SweepFlush

SpecSweep == InitSweep /\ [][NextSweep]_vars

\* the cells of row i of the matrix
RowCells(i) == {Cell(N, i, j) : j \in 0..(N - 1)}

\* the cells a step changes
ChangedCells == {c \in DOMAIN dist : dist'[c] # dist[c]}

\* a step of the sweep changes only cells of the row of a source a worker
\* holds, to the BFS length of the cell's gene, which depends on the graph
\* alone
SweepStepInRow ==
    pc = "sweep" =>
       \A c \in ChangedCells :
          \E w \in Workers :
             /\ work[w].busy
             /\ c \in RowCells(gene_to_idx[work[w].source])
             /\ \E h \in DOMAIN gene_to_idx :
                   /\ c = Cell(N, gene_to_idx[work[w].source], gene_to_idx[h])
                   /\ HasPath(work[w].source, h)
                   /\ dist'[c] = PathLen(work[w].source, h)

\* no two workers hold the same source, and no held source is pending
DisjointRows ==
    pc = "sweep" =>
       /\ \A v, w \in Workers :
             (v # w /\ work[v].busy /\ work[w].busy) =>
                RowCells(gene_to_idx[work[v].source])
                   \cap RowCells(gene_to_idx[work[w].source]) = {}
       /\ \A w \in Workers : work[w].busy => work[w].source \notin pending

\* the matrix of the sequential sweep of main() on the same inputs
SequentialMatrix == MainRun(ppi, dt, gd, cutoff).dist

\* C25: the BFS from the source with index i writes only cells of row i and
\* its writes do not depend on the matrix; the rows of different sources are
\* disjoint, and the sweep run in any order of the sources, interleaved
\* across workers, ends with the matrix of the sequential sweep.
C25_DisjointRows ==
    /\ [][SweepStepInRow]_vars
    /\ []DisjointRows
    /\ [](pc = "done" => (dist = SequentialMatrix /\ matrix_file = FileOf(dist)))

\* two workers in the middle of two different rows, each with a write done
C25_Witness ==
    /\ pc = "sweep"
    /\ work[1].busy /\ work[2].busy
    /\ work[1].source = gC /\ work[2].source = gA
    /\ work[1].todo # DOMAIN work[1].lengths
    /\ work[2].todo # DOMAIN work[2].lengths
    /\ \E c \in RowCells(gene_to_idx[gC]) : dist[c] = 2

\* a finished interleaved sweep over the chain
C25_WitnessDone ==
    /\ pc = "done"
    /\ work # <<>>
    /\ Len(genes_in_graph) >= 3
    /\ dist = SequentialMatrix

-----------------------------------------------------------------------------
(* Batch scoring: annotate_pairs *)

\* the output of annotate_pairs: the n input rows in input order, ids
\* trimmed, each with the score of its own ids
AnnotatedAll ==
    LET n == Len(pairs_df)
    IN  /\ Len(annotated.rows) = n
        /\ Len(mean_distances) = n
        /\ Len(proximity) = n
        /\ Len(cell_reads) = n
        /\ \A r \in 1..n :
              LET res == mean_distance_for_pair(
                             Strip(pairs_df[r][1]), Strip(pairs_df[r][2]),
                             drug_to_genes, disease_to_genes,
                             r_gene_to_idx, r_dist, max_uint16)
              IN  /\ annotated.rows[r] = <<Strip(pairs_df[r][1]), Strip(pairs_df[r][2])>>
                  /\ mean_distances[r] = res.md
                  /\ mean_distances[r] = ExpectedMean(r)
                  /\ cell_reads[r] = res.reads
                  /\ proximity[r] = proximity_score(res.md)
        /\ progress = (n + chunk_size - 1) \div chunk_size

\* a step of annotate_pairs scores the next rows in order, keeps the scores
\* already made, and changes neither the input table nor the maps
AnnotateStep ==
    rpc = "annotate" =>
        /\ pairs_df' = pairs_df
        /\ drug_to_genes' = drug_to_genes
        /\ disease_to_genes' = disease_to_genes
        /\ r_gene_to_idx' = r_gene_to_idx
        /\ Len(mean_distances) = start
        /\ start' >= start
        /\ start' <= start + chunk_size
        /\ SubSeq(mean_distances', 1, start) = mean_distances
        /\ progress' \in {progress, progress + 1}
        /\ progress' = progress + 1 <=> start' > start

\* C26: annotate_pairs, for n input rows and chunk_size >= 1, scores every
\* row once, in input order, with the maps passed in: the output has the n
\* rows in input order, row k with the mean distance of its own (drug_id,
\* disease_id) and the matching proximity score, whatever the chunk size;
\* one progress report is made per chunk, and the input table is unchanged.
C26_AnnotatePairs ==
    /\ [][AnnotateStep]_vars
    /\ [](rpc = "end" => AnnotatedAll)

\* two rows in chunks of one: two reports; a drug id with a trailing blank
C26_Witness ==
    /\ rpc = "end"
    /\ pairs_df = <<<<dPsp, sX>>, <<dQ, sX>>>>
    /\ annotated.rows = <<<<dP, sX>>, <<dQ, sX>>>>
    /\ chunk_size = 1
    /\ progress = 2
    /\ ~mean_distances[1].inf
    /\ cell_reads[1] # <<>>

\* one row and a chunk size of two: one report, for the short chunk
C26_WitnessShortChunk ==
    /\ rpc = "end"
    /\ Len(pairs_df) = 1
    /\ chunk_size = 2
    /\ progress = 1
    /\ Len(mean_distances) = 1

-----------------------------------------------------------------------------
(* run_csv_pipeline (src/ddh/pipeline.py) *)

\* the rows counted in place of the distinct genes
n_genes_of_size(keys, genes, key) ==
    Cardinality({i \in DOMAIN keys : keys[i] = key})

\* groupby(key)["gene_id"].nunique(): the number of distinct genes of a key
n_genes_of(keys, genes, key) ==
    Cardinality({genes[i] : i \in {j \in DOMAIN keys : keys[j] = key}})

\* compute_overlap_table_fast (lines 152-224)
compute_overlap_table_fast(drug_targets, gene_diseases) ==
    LET \* dt_df.merge(gd_df, on="gene_id", how="inner"): the pairs of
        \* records that name the same gene
        merged == {ij \in (DOMAIN drug_targets) \X (DOMAIN gene_diseases) :
                      drug_targets[ij[1]].gene_id = gene_diseases[ij[2]].gene_id}
        keyOf(ij) == <<drug_targets[ij[1]].drug_id, gene_diseases[ij[2]].disease_id>>
        keys == SetToSeq({keyOf(ij) : ij \in merged})
        genes(key) == {drug_targets[ij[1]].gene_id :
                          ij \in {m \in merged : keyOf(m) = key}}
        n_drug_genes(d) ==
            n_genes_of([i \in DOMAIN drug_targets |-> drug_targets[i].drug_id],
                       [i \in DOMAIN drug_targets |-> drug_targets[i].gene_id], d)
        n_disease_genes(s) ==
            n_genes_of([i \in DOMAIN gene_diseases |-> gene_diseases[i].disease_id],
                       [i \in DOMAIN gene_diseases |-> gene_diseases[i].gene_id], s)
        row(key) ==
            LET n_overlap == Cardinality(genes(key))
                denom == n_drug_genes(key[1]) + n_disease_genes(key[2]) - n_overlap
            IN  [drug_id |-> key[1], disease_id |-> key[2],
                 n_overlap |-> Ratio(n_overlap, 1),
                 overlapping_genes |-> JoinSemicolon(Sorted(genes(key))),
                 jaccard |-> IF denom = 0 THEN NaN ELSE Ratio(n_overlap, denom)]
        rows == [i \in DOMAIN keys |-> row(keys[i])]
    IN  IF drug_targets = <<>> \/ gene_diseases = <<>> \/ merged = {}
        THEN DataFrame(OverlapColumns, <<>>)
        ELSE DataFrame(OverlapColumns,
                 StableSort(rows, [i, j \in DOMAIN rows |-> OverlapBefore(rows[i], rows[j])]))

\* the Drug and Disease records of the CSV files: dQ and sY have no record
Entity(id, name) == [id |-> id, name |-> name]
drugs == <<Entity(dP, <<80>>)>>
diseases == <<Entity(sX, <<88>>)>>

\* df[column].map({d.id: d.name}): NaN for an id without a record
NameOf(entities, id) ==
    IF \E i \in DOMAIN entities : entities[i].id = id
    THEN entities[CHOOSE i \in DOMAIN entities :
                     /\ entities[i].id = id
                     /\ \A j \in DOMAIN entities : entities[j].id = id => j <= i].name
    ELSE NaNStr

\* attach_entity_names (scoring.py lines 251-257)
attach_entity_names(df, drug_list, disease_list) ==
    LET cols == df.columns \cup {"drug_name", "disease_name"}
    IN  DataFrame(cols,
            [i \in DOMAIN df.rows |->
                [c \in cols |->
                    IF c = "drug_name" THEN NameOf(drug_list, df.rows[i].drug_id)
                    ELSE IF c = "disease_name"
                         THEN NameOf(disease_list, df.rows[i].disease_id)
                    ELSE df.rows[i][c]]])

\* every overlap pair at distance 0 and proximity 1.0
FallbackProximityNear(o_df) ==
    DataFrame(ProximityColumns,
        [i \in DOMAIN o_df.rows |->
            [drug_id |-> o_df.rows[i].drug_id, disease_id |-> o_df.rows[i].disease_id,
             mean_distance |-> Zero, proximity_score |-> One]])

\* lines 149-154: no PPI provided, every overlap pair gets distance inf and
\* proximity 0.0
FallbackProximity(o_df) ==
    DataFrame(ProximityColumns,
        [i \in DOMAIN o_df.rows |->
            [drug_id |-> o_df.rows[i].drug_id, disease_id |-> o_df.rows[i].disease_id,
             mean_distance |-> Inf, proximity_score |-> Zero]])

\* the association records of the CSV files
MaxDiseaseRecords == 3
CsvDrugTargets ==
    {DrugTargetAssoc(dP, gA), DrugTargetAssoc(dP, gB), DrugTargetAssoc(dQ, gA)}
CsvGeneDiseases ==
    {GeneDiseaseAssoc(gA, sX), GeneDiseaseAssoc(gB, sX), GeneDiseaseAssoc(gA, sY)}

InitPipeline ==
    /\ WriteIdle
    /\ ReadIdle
    /\ FirstRun
    /\ ScoreStart
    /\ interactions \in RecordInteractions
    /\ dts \in SeqsUpTo(CsvDrugTargets, MaxRecords)
    /\ gds \in SeqsUpTo(CsvGeneDiseases, MaxDiseaseRecords)
    /\ p_drug_to_genes = <<>> /\ p_disease_to_genes = <<>>
    /\ overlap_df = DataFrame({}, <<>>) /\ prox_df = DataFrame({}, <<>>)
    /\ \E w \in Weights : alpha = w[1] /\ beta = w[2]
    /\ ppc = "pipeline_maps"

\* lines 131-132
PipelineMaps ==
    /\ ppc = "pipeline_maps"
    /\ p_drug_to_genes' = build_drug_target_map(dts)
    /\ p_disease_to_genes' = build_disease_gene_map(gds)
    /\ ppc' = "pipeline_overlap"
    /\ UNCHANGED <<interactions, dts, gds, ddh_G, overlap_df, prox_df,
                   combined_df, alpha, beta>>
    /\ UNCHANGED <<wvars, rvars, tvars>>

\* line 135
PipelineOverlap ==
    /\ ppc = "pipeline_overlap"
    /\ overlap_df' = compute_overlap_table_fast(dts, gds)
    /\ ppc' = "pipeline_proximity"
    /\ UNCHANGED <<interactions, dts, gds, p_drug_to_genes, p_disease_to_genes,
                   ddh_G, prox_df, combined_df, alpha, beta>>
    /\ UNCHANGED <<wvars, rvars, tvars>>

\* lines 138-141: if ppis
PipelineProximity ==
    /\ ppc = "pipeline_proximity"
    /\ interactions # <<>>
    /\ ddh_G' = ddh_build_ppi_graph(interactions)
    /\ prox_df' = compute_network_proximity(ddh_G', p_drug_to_genes,
                      p_disease_to_genes, Ratio(default_distance, 1))
    /\ ppc' = "pipeline_combine"
    /\ UNCHANGED <<interactions, dts, gds, p_drug_to_genes, p_disease_to_genes,
                   overlap_df, combined_df, alpha, beta>>
    /\ UNCHANGED <<wvars, rvars, tvars>>

\* lines 142-147: no PPI and no overlap, the empty table is returned
PipelineReturnEmpty ==
    /\ ppc = "pipeline_proximity"
    /\ interactions = <<>>
    /\ overlap_df.rows = <<>>
    /\ combined_df' = attach_entity_names(overlap_df, drugs, diseases)
    /\ ppc' = "pipeline_returned"
    /\ UNCHANGED <<interactions, dts, gds, p_drug_to_genes, p_disease_to_genes,
                   ddh_G, overlap_df, prox_df, alpha, beta>>
    /\ UNCHANGED <<wvars, rvars, tvars>>

\* lines 149-154: no PPI, the overlap pairs with the default scores
PipelineFallback ==
    /\ ppc = "pipeline_proximity"
    /\ interactions = <<>>
    /\ overlap_df.rows # <<>>
    /\ prox_df' = FallbackProximity(overlap_df)
    /\ ppc' = "pipeline_combine"
    /\ UNCHANGED <<interactions, dts, gds, p_drug_to_genes, p_disease_to_genes,
                   ddh_G, overlap_df, combined_df, alpha, beta>>
    /\ UNCHANGED <<wvars, rvars, tvars>>

\* lines 157-167: combine, attach the names, return
PipelineCombine ==
    /\ ppc = "pipeline_combine"
    /\ LET res == combine_overlap_and_proximity(overlap_df, prox_df, alpha, beta)
       IN  IF res.raised
           THEN combined_df' = res.df /\ ppc' = "pipeline_crashed"
           ELSE /\ combined_df' = attach_entity_names(res.df, drugs, diseases)
                /\ ppc' = "pipeline_returned"
    /\ UNCHANGED <<interactions, dts, gds, p_drug_to_genes, p_disease_to_genes,
                   ddh_G, overlap_df, prox_df, alpha, beta>>
    /\ UNCHANGED <<wvars, rvars, tvars>>

NextPipeline ==
    \/ PipelineMaps
    \/ PipelineOverlap
    \/ PipelineProximity
    \/ PipelineReturnEmpty
    \/ PipelineFallback
    \/ PipelineCombine

SpecPipeline == InitPipeline /\ [][NextPipeline]_vars

-----------------------------------------------------------------------------
(* Properties of run_csv_pipeline *)

NoPpiReturned == interactions = <<>> /\ ppc = "pipeline_returned"

\* the largest n_overlap of the returned table
MaxOverlapReturned ==
    RMax({combined_df.rows[i].n_overlap : i \in DOMAIN combined_df.rows})

FallbackRows ==
    /\ Len(combined_df.rows) = Cardinality(IntersectingPairs)
    /\ KeysOf(combined_df) = IntersectingPairs
    /\ \A i \in DOMAIN combined_df.rows :
          LET r == combined_df.rows[i]
          IN  /\ r.mean_distance = Inf
              /\ r.proximity_score = Zero
              /\ r.n_overlap = Ratio(Cardinality(p_drug_to_genes[r.drug_id]
                                        \cap p_disease_to_genes[r.disease_id]), 1)
              /\ r.norm_overlap = RDiv(r.n_overlap, MaxOverlapReturned)
              /\ r.combined_score = RMul(Ratio(alpha, 1), r.norm_overlap)

EmptyReturnedStep ==
    (ppc = "pipeline_proximity" /\ interactions = <<>> /\ overlap_df.rows = <<>>)
    => /\ ppc' = "pipeline_returned"
       /\ combined_df'.rows = <<>>
       /\ IntersectingPairs = {}

\* C27: given no PPI interactions, run_csv_pipeline returns exactly the
\* (drug, disease) pairs whose gene sets overlap, each with mean_distance =
\* +infinity and proximity_score = 0, so that combined_score = alpha *
\* normalized overlap (n_overlap / the largest n_overlap); and when the
\* overlap table is empty it returns the empty table in one step, without
\* passing through the combiner.
C27_NoPpiFallback ==
    /\ [][EmptyReturnedStep]_vars
    /\ [](NoPpiReturned => FallbackRows)

\* two overlapping pairs with different overlaps, alpha = 2
C27_Witness ==
    /\ NoPpiReturned
    /\ Len(combined_df.rows) = 2
    /\ alpha = 2
    /\ combined_df.rows[1].combined_score = Ratio(2, 1)
    /\ combined_df.rows[2].combined_score = Ratio(1, 1)

\* the empty table returned
C27_WitnessEmpty ==
    /\ NoPpiReturned
    /\ combined_df.rows = <<>>
    /\ dts # <<>> /\ gds # <<>>
    /\ prox_df = DataFrame({}, <<>>)

OverlapComputed ==
    ppc \in {"pipeline_proximity", "pipeline_combine", "pipeline_returned",
             "pipeline_crashed"}

\* C28: on the same association records compute_overlap_table_fast returns
\* the same rows (drug_id, disease_id, n_overlap, overlapping_genes,
\* jaccard), in the same order, as compute_overlap_table on the maps that
\* build_drug_target_map and build_disease_gene_map build from the records,
\* also when records are duplicated and when no pair overlaps.
C28_FastEqualsSlow ==
    OverlapComputed =>
        overlap_df.rows =
            compute_overlap_table(build_drug_target_map(dts),
                                  build_disease_gene_map(gds)).rows

\* duplicated records on both sides, two rows in the table
C28_Witness ==
    /\ OverlapComputed
    /\ Len(dts) = 2 /\ dts[1] = dts[2]
    /\ \E i, j \in DOMAIN gds : i < j /\ gds[i] = gds[j]
    /\ Len(overlap_df.rows) = 2

\* two rows of different overlaps, ordered by n_overlap
C28_WitnessOrder ==
    /\ OverlapComputed
    /\ Len(overlap_df.rows) = 2
    /\ overlap_df.rows[1].n_overlap = Ratio(2, 1)
    /\ overlap_df.rows[2].n_overlap = Ratio(1, 1)
    /\ RLess(overlap_df.rows[2].jaccard, overlap_df.rows[1].jaccard)

\* records on both sides and no overlapping pair
C28_WitnessNoOverlap ==
    /\ OverlapComputed
    /\ dts # <<>> /\ gds # <<>>
    /\ overlap_df.rows = <<>>

-----------------------------------------------------------------------------
(* Both scorers on the same graph and the same association records *)

\* build_gene_maps (annotate, lines 133-145): groupby(key)["gene_id"]
\* .apply(list) of the trimmed columns, key -> its genes in record order
GroupLists(keys, genes) ==
    LET at(x) == SelectSeq([i \in DOMAIN keys |-> i], LAMBDA i : Strip(keys[i]) = x)
    IN  [x \in {Strip(keys[i]) : i \in DOMAIN keys} |->
            [n \in DOMAIN at(x) |-> Strip(genes[at(x)[n]])]]

\* interaction records that name the edges of the graph precompute builds
\* from the rows of ppi.csv (gene ids trimmed, as precompute trims them)
InteractionsOf(ppi_rows) ==
    [i \in DOMAIN ppi_rows |->
        GeneGeneInteraction(Strip(ppi_rows[i][1]), Strip(ppi_rows[i][2]), NoWeight)]

\* records whose genes lie on the chain A-B-C-a or outside the graph (AB,
\* and C when the graph is the edge A-B alone)
SharedDrugTargets ==
    {DrugTargetAssoc(dP, gA), DrugTargetAssoc(dP, gAB), DrugTargetAssoc(dQ, gC)}
SharedGeneDiseases ==
    {GeneDiseaseAssoc(gB, sX), GeneDiseaseAssoc(gAB, sX), GeneDiseaseAssoc(gC, sX)}
SharedPpiRows == {ChainRows, <<<<gA, gB>>>>}

\* the matrix precomputed without cutoff from the three CSV files, the same
\* files read by annotate (build_gene_maps) and by the ddh loaders
InitShared ==
    /\ FirstRun
    /\ ReadStart
    /\ ScoreStart
    /\ dts \in SeqsUpTo(SharedDrugTargets, MaxRecords)
    /\ gds \in SeqsUpTo(SharedGeneDiseases, MaxRecords)
    /\ \E rows \in SharedPpiRows :
          /\ WriteDone([ppi |-> rows,
                        dt |-> [i \in DOMAIN dts |-> dts[i].gene_id],
                        gd |-> [i \in DOMAIN gds |-> gds[i].gene_id],
                        cutoff |-> None])
          /\ interactions = InteractionsOf(rows)
    /\ drug_to_genes = GroupLists([i \in DOMAIN dts |-> dts[i].drug_id],
                                  [i \in DOMAIN dts |-> dts[i].gene_id])
    /\ disease_to_genes = GroupLists([i \in DOMAIN gds |-> gds[i].disease_id],
                                     [i \in DOMAIN gds |-> gds[i].gene_id])
    /\ pairs_df = <<<<dPsp, sX>>, <<dQ, sX>>>>
    /\ chunk_size \in 1..MaxChunk
    /\ p_drug_to_genes = <<>> /\ p_disease_to_genes = <<>>
    /\ overlap_df = DataFrame({}, <<>>) /\ prox_df = DataFrame({}, <<>>)
    /\ alpha = 1 /\ beta = 1
    /\ ppc = "maps"

SpecShared == InitShared /\ [][NextScorers]_vars

\* rows scored by the matrix scorer whose pair the graph scorer has scored
BothScored ==
    IF ppc \in {"combine", "ranked", "crashed"}
    THEN {r \in DOMAIN mean_distances :
             <<Strip(pairs_df[r][1]), Strip(pairs_df[r][2])>> \in KeysOf(prox_df)}
    ELSE {}

GraphRow(r) == RowOf(prox_df, <<Strip(pairs_df[r][1]), Strip(pairs_df[r][2])>>)

\* the graph scorer finds a path for the pair of row r
FindsPath(r) ==
    Reaches(InteractionEdges, p_drug_to_genes[GraphRow(r).drug_id],
            p_disease_to_genes[GraphRow(r).disease_id])

\* the genes of both sets of the pair of row r that are not graph nodes
SharedOutsideGraph(r) ==
    (p_drug_to_genes[GraphRow(r).drug_id]
        \cap p_disease_to_genes[GraphRow(r).disease_id]) \ ddh_G.nodes

SharedInUniverse(r) ==
    LET d == Strip(pairs_df[r][1])
        s == Strip(pairs_df[r][2])
    IN  IF HasGenes(drug_to_genes, d) /\ HasGenes(disease_to_genes, s)
        THEN Range(drug_to_genes[d]) \cap Range(disease_to_genes[s])
                 \cap DOMAIN r_gene_to_idx
        ELSE {}

\* every entry of the pair of row r off the diagonal is the sentinel
OnlySentinelElsewhere(r) ==
    \A g \in Range(drug_to_genes[Strip(pairs_df[r][1])]) \cap DOMAIN r_gene_to_idx :
        \A h \in Range(disease_to_genes[Strip(pairs_df[r][2])]) \cap DOMAIN r_gene_to_idx :
            g # h => MatrixAt(r_dist, r_gene_to_idx[g], r_gene_to_idx[h]) = max_uint16

\* C30: in the matrix-based scorer a drug and a disease that share a gene
\* of the universe get a finite mean_distance and a proximity_score > 0,
\* the shared gene contributing its diagonal entry 0 whether or not it has
\* an edge; when every other entry of the pair is the sentinel,
\* mean_distance = 0 and proximity_score = 1.
C30_SharedGeneFinite ==
    \A r \in DOMAIN mean_distances :
        SharedInUniverse(r) # {} =>
            /\ ~mean_distances[r].inf
            /\ rpc = "end" => RLess(Zero, proximity[r])
            /\ OnlySentinelElsewhere(r) =>
                  /\ mean_distances[r] = Zero
                  /\ rpc = "end" => proximity[r] = One

\* the shared gene AB has no edge, the other genes of the pair have
C30_Witness ==
    /\ rpc = "end"
    /\ \E r \in DOMAIN mean_distances :
          /\ SharedInUniverse(r) = {gAB}
          /\ gAB \notin G.nodes
          /\ Len(drug_to_genes[Strip(pairs_df[r][1])]) = 2
          /\ Len(disease_to_genes[Strip(pairs_df[r][2])]) = 2
          /\ OnlySentinelElsewhere(r)
          /\ mean_distances[r] = Zero
          /\ proximity[r] = One

\* the shared gene adds its 0 to a finite distance between two other genes
C30_WitnessMixed ==
    /\ rpc = "end"
    /\ \E r \in DOMAIN mean_distances :
          /\ SharedInUniverse(r) = {gAB}
          /\ ~OnlySentinelElsewhere(r)
          /\ mean_distances[r] = Ratio(1, 2)
          /\ proximity[r] = Ratio(2, 3)

====
